---- MODULE Spec2Model ----
(***************************************************************************)
(* GambitHD2: the strategic analysis engine (src/js/gambit.js), the scout  *)
(* detector (src/unnamed/part_002) and the refresh loop that drives them   *)
(* (src/unnamed/part_001, src/js/api.js).                                  *)
(*                                                                         *)
(* Numbers are JavaScript numbers: a finite value (kept as an exact        *)
(* rational n/d in lowest terms), NaN, +Infinity, -Infinity; besides them  *)
(* a value can be undefined (a missing field) or null.  Binary rounding of *)
(* doubles is not modelled.                                                *)
(*                                                                         *)
(* Time is counted in ticks of 3.6 s, a thousandth of an hour, so that the *)
(* code's 0.002 h threshold is 2 ticks and Date.now() differences divided  *)
(* by 3_600_000 are ticks / 1000.                                          *)
(***************************************************************************)
EXTENDS Integers, Sequences, FiniteSets, TLC

VARIABLES
  galaxy,      \* the war as the API serves it: planets, campaigns, war
  now,         \* Date.now(), in ticks
  snapshots,   \* gambit.js:18   the snapshot store, oldest first
  recorded,    \* history: every snapshot ever recorded, in recording order
  state,       \* part_001:7     state.liberationCampaigns / defenseCampaigns / allPlanets
  pass,        \* the last detection pass on the store as it stands: its inputs, the
               \* clock, the store it read, its results (NoPass when none has run)
  fetches,     \* refresh() calls awaiting fetchAll(), in the order they were started
  started,     \* number of refresh() calls started so far
  calc         \* the last call of one of the engine's functions made on its own:
               \* the function, its arguments, its result (NoCalc when none was made)

vars == <<galaxy, now, snapshots, recorded, state, pass, fetches, started, calc>>

-----------------------------------------------------------------------------
(* JavaScript values *)

RECURSIVE GCD(_, _)
GCD(a, b) == IF b = 0 THEN a ELSE GCD(b, a % b)

Abs(x) == IF x < 0 THEN -x ELSE x

\* the finite number n/d (d > 0), in lowest terms
Rat(n, d) ==
  LET g == GCD(Abs(n), d)
  IN  [k |-> "num", n |-> n \div g, d |-> d \div g]

Num(n) == [k |-> "num", n |-> n, d |-> 1]

NaN   == [k |-> "nan",   n |-> 0, d |-> 1]
PInf  == [k |-> "pinf",  n |-> 0, d |-> 1]
NInf  == [k |-> "ninf",  n |-> 0, d |-> 1]
Undef == [k |-> "undef", n |-> 0, d |-> 1]
Null  == [k |-> "null",  n |-> 0, d |-> 1]

\* ToNumber: undefined -> NaN, null -> +0
ToNumber(v) ==
  IF v.k = "undef" THEN NaN ELSE IF v.k = "null" THEN Num(0) ELSE v

\* v == null  (true of null and of undefined)
IsNullish(v) == v.k \in {"undef", "null"}

\* a ?? b
Coalesce(a, b) == IF IsNullish(a) THEN b ELSE a

\* !v is false: v is neither undefined, null, NaN nor 0
Truthy(v) == v.k \in {"pinf", "ninf"} \/ (v.k = "num" /\ v.n # 0)

IsFinite(v) == ToNumber(v).k = "num"

\* the sign of a number that is not NaN: -1, 0, 1 (a zero counts as +0)
Sgn(x) ==
  IF x.k = "pinf" THEN 1
  ELSE IF x.k = "ninf" THEN -1
  ELSE IF x.n > 0 THEN 1 ELSE IF x.n < 0 THEN -1 ELSE 0

JNeg(a) ==
  LET x == ToNumber(a)
  IN  IF x.k = "nan" THEN NaN
      ELSE IF x.k = "pinf" THEN NInf
      ELSE IF x.k = "ninf" THEN PInf
      ELSE [x EXCEPT !.n = -x.n]

JAdd(a, b) ==
  LET x == ToNumber(a)
      y == ToNumber(b)
  IN  IF x.k = "nan" \/ y.k = "nan" THEN NaN
      ELSE IF x.k = "pinf" THEN (IF y.k = "ninf" THEN NaN ELSE PInf)
      ELSE IF x.k = "ninf" THEN (IF y.k = "pinf" THEN NaN ELSE NInf)
      ELSE IF y.k \in {"pinf", "ninf"} THEN y
      ELSE LET g == GCD(x.d, y.d)
           IN  Rat(x.n * (y.d \div g) + y.n * (x.d \div g), x.d * (y.d \div g))

JSub(a, b) == JAdd(a, JNeg(b))

JMul(a, b) ==
  LET x == ToNumber(a)
      y == ToNumber(b)
  IN  IF x.k = "nan" \/ y.k = "nan" THEN NaN
      ELSE IF x.k # "num" \/ y.k # "num"
        THEN (IF Sgn(x) = 0 \/ Sgn(y) = 0 THEN NaN
              ELSE IF Sgn(x) * Sgn(y) > 0 THEN PInf ELSE NInf)
      ELSE LET g1 == GCD(Abs(x.n), y.d)
               g2 == GCD(Abs(y.n), x.d)
           IN  Rat((x.n \div g1) * (y.n \div g2), (x.d \div g2) * (y.d \div g1))

JDiv(a, b) ==
  LET x == ToNumber(a)
      y == ToNumber(b)
  IN  IF x.k = "nan" \/ y.k = "nan" THEN NaN
      ELSE IF x.k # "num" THEN
             (IF y.k # "num" THEN NaN
              ELSE IF Sgn(x) * Sgn(y) >= 0 THEN x ELSE JNeg(x))
      ELSE IF y.k # "num" THEN Num(0)
      ELSE IF y.n = 0 THEN
             (IF x.n = 0 THEN NaN ELSE IF x.n > 0 THEN PInf ELSE NInf)
      ELSE JMul(x, IF y.n > 0 THEN Rat(y.d, y.n) ELSE Rat(-y.d, -y.n))

\* a < b, false when either side is NaN
JLt(a, b) ==
  LET x == ToNumber(a)
      y == ToNumber(b)
  IN  /\ x.k # "nan"
      /\ y.k # "nan"
      /\ \/ x.k = "ninf" /\ y.k # "ninf"
         \/ y.k = "pinf" /\ x.k # "pinf"
         \/ x.k = "num" /\ y.k = "num" /\ x.n * y.d < y.n * x.d

JEq(a, b) ==
  LET x == ToNumber(a)
      y == ToNumber(b)
  IN  x.k # "nan" /\ y.k # "nan" /\ x = y

JLe(a, b) == JLt(a, b) \/ JEq(a, b)
JGt(a, b) == JLt(b, a)
JGe(a, b) == JLe(b, a)

\* a maximum that keeps its first argument
MathMaxOfFirst(a, b) == a

\* Math.min / Math.max of two numbers: NaN when either is NaN
MathMin(a, b) ==
  LET x == ToNumber(a)
      y == ToNumber(b)
  IN  IF x.k = "nan" \/ y.k = "nan" THEN NaN ELSE IF JLt(y, x) THEN y ELSE x

MathMax(a, b) ==
  LET x == ToNumber(a)
      y == ToNumber(b)
  IN  IF x.k = "nan" \/ y.k = "nan" THEN NaN ELSE IF JLt(x, y) THEN y ELSE x

\* floor(n/d) for d > 0
FloorDiv(n, d) == IF n >= 0 THEN n \div d ELSE -((-n + d - 1) \div d)

\* a ceiling that drops the fraction instead
MathCeilTruncated(a) ==
  LET x == ToNumber(a)
  IN  IF x.k # "num" THEN x ELSE Num(FloorDiv(x.n, x.d))

\* Math.ceil: NaN and the infinities are returned as they are
MathCeil(a) ==
  LET x == ToNumber(a)
  IN  IF x.k # "num" THEN x ELSE Num(-FloorDiv(-x.n, x.d))

\* a rounding that drops the fraction (Math.floor)
MathRoundDown(a) ==
  LET x == ToNumber(a)
  IN  IF x.k # "num" THEN x ELSE Num(FloorDiv(x.n, x.d))

\* Math.round: the nearest integer, a half rounds up
MathRound(a) ==
  LET x == ToNumber(a)
  IN  IF x.k # "num" THEN x ELSE Num(FloorDiv(2 * x.n + x.d, 2 * x.d))

\* Math.min(...list) over a non-empty sequence of numbers
RECURSIVE MathMinSeq(_)
MathMinSeq(s) ==
  IF Len(s) = 1 THEN ToNumber(s[1]) ELSE MathMin(s[1], MathMinSeq(Tail(s)))

-----------------------------------------------------------------------------
(* Planets and campaigns, as the API delivers them.                        *)
(*   planet:   [present, index, health, maxHealth, regenPerSecond,         *)
(*              playerCount, owner, waypoints, event]                      *)
(*   present = FALSE stands for a campaign whose planet record is missing; *)
(*   playerCount = Undef for a planet without statistics or player count;  *)
(*   owner = [def, s]: currentOwner, a sequence of characters when def;    *)
(*   waypoints = [def, idx]: the array of indices it lists, when def;      *)
(*   event = [def, endTime]: endTime in ticks, Undef when it has none.     *)
(*   campaign: [planet |-> planet]                                         *)

\* the snapshot store's capacity
MaxSnapshots == 6

\* the shortest interval measuredNetRate accepts: 0.002 h
MinDeltaHours == Rat(2, 1000)

\* array.includes(x)
Includes(array, x) == \E i \in 1..Len(array) : array[i] = x

\* planet.waypoints ?? []
Waypoints(planet) == IF planet.waypoints.def THEN planet.waypoints.idx ELSE << >>

\* planet.statistics?.playerCount ?? 0
PlayersOf(planet) == Coalesce(planet.playerCount, Num(0))

\* dc.planet.event?.endTime, undefined without an event
EndTimeOf(planet) == IF planet.event.def THEN planet.event.endTime ELSE Undef

libPct(planet) ==
  IF ~Truthy(planet.maxHealth) THEN Num(0)
  ELSE MathMax(Num(0), MathMin(Num(100),
         JMul(JSub(Num(1), JDiv(planet.health, planet.maxHealth)), Num(100))))

\* a decay rate left as a fraction per hour, not multiplied by 100
decayFractionHr(planet) ==
  JDiv(JMul(planet.regenPerSecond, Num(3600)), planet.maxHealth)

\* (regenPerSecond * 3600 / maxHealth) * 100, with no guard on maxHealth
decayPctHr(planet) ==
  JMul(JDiv(JMul(planet.regenPerSecond, Num(3600)), planet.maxHealth), Num(100))

\* (new Date(endTime).getTime() - Date.now()) / 3_600_000
hoursLeft(endTime, t) == JDiv(JSub(endTime, Num(t)), Num(1000))

---- (* Snapshot store *)

\* the entry recordSnapshot builds from the planet array at clock t; a later
\* array element with the same index overwrites an earlier one
SnapshotEntry(planets, t) ==
  LET idxs == {planets[i].index : i \in 1..Len(planets)}
      last(x) == CHOOSE i \in 1..Len(planets) :
                   /\ planets[i].index = x
                   /\ \A j \in 1..Len(planets) : planets[j].index = x => j <= i
  IN  [ts      |-> t,
       health  |-> [x \in idxs |-> planets[last(x)].health],
       players |-> [x \in idxs |-> PlayersOf(planets[last(x)])]]

\* a store that drops the newest entry when full (pop() for shift())
PushedPop(snaps, entry) ==
  LET all == Append(snaps, entry)
  IN  IF Len(all) > MaxSnapshots THEN SubSeq(all, 1, Len(all) - 1) ELSE all

\* the store after snapshots.push(entry); if (length > 6) shift()
Pushed(snaps, entry) ==
  LET all == Append(snaps, entry)
  IN  IF Len(all) > MaxSnapshots THEN Tail(all) ELSE all

recordSnapshot(snaps, planets, t) == Pushed(snaps, SnapshotEntry(planets, t))

\* a store whose entries keep no player counts
PlayersAtUnrecorded(entry, idx) == Undef

\* entry.health[idx] / entry.players[idx]: undefined for an index never recorded
HealthAt(entry, idx)  == IF idx \in DOMAIN entry.health  THEN entry.health[idx]  ELSE Undef
PlayersAt(entry, idx) == IF idx \in DOMAIN entry.players THEN entry.players[idx] ELSE Undef

---- (* Rate estimator *)

\* a measurement that accepts any interval between the two snapshots
measuredNetRateAnyInterval(snaps, planetIndex, maxHealth) ==
  IF Len(snaps) < 2 THEN Null
  ELSE
    LET latest       == snaps[Len(snaps)]
        prev         == snaps[Len(snaps) - 1]
        latestHealth == HealthAt(latest, planetIndex)
        prevHealth   == HealthAt(prev, planetIndex)
        deltaHours   == Rat(latest.ts - prev.ts, 1000)
        deltaHealth  == JSub(prevHealth, latestHealth)
    IN  IF IsNullish(latestHealth) \/ IsNullish(prevHealth) THEN Null
        ELSE JDiv(JMul(JDiv(deltaHealth, maxHealth), Num(100)), deltaHours)

\* a measurement between the oldest and the latest snapshot of the store
measuredNetRateOverStore(snaps, planetIndex, maxHealth) ==
  IF Len(snaps) < 2 THEN Null
  ELSE
    LET latest       == snaps[Len(snaps)]
        prev         == snaps[1]
        latestHealth == HealthAt(latest, planetIndex)
        prevHealth   == HealthAt(prev, planetIndex)
        deltaHours   == Rat(latest.ts - prev.ts, 1000)
        deltaHealth  == JSub(prevHealth, latestHealth)
    IN  IF IsNullish(latestHealth) \/ IsNullish(prevHealth) THEN Null
        ELSE IF JLt(deltaHours, MinDeltaHours) THEN Null
        ELSE JDiv(JMul(JDiv(deltaHealth, maxHealth), Num(100)), deltaHours)

measuredNetRate(snaps, planetIndex, maxHealth) ==
  IF Len(snaps) < 2 THEN Null
  ELSE
    LET latest       == snaps[Len(snaps)]
        prev         == snaps[Len(snaps) - 1]
        latestHealth == HealthAt(latest, planetIndex)
        prevHealth   == HealthAt(prev, planetIndex)
        deltaHours   == Rat(latest.ts - prev.ts, 1000)
        deltaHealth  == JSub(prevHealth, latestHealth)
    IN  IF IsNullish(latestHealth) \/ IsNullish(prevHealth) THEN Null
        ELSE IF JLt(deltaHours, MinDeltaHours) THEN Null
        ELSE JDiv(JMul(JDiv(deltaHealth, maxHealth), Num(100)), deltaHours)

estimatedNetRate(planet) ==
  LET playerRatePctHr == JMul(JDiv(PlayersOf(planet), Num(10000)), Num(1))
  IN  [value |-> JSub(playerRatePctHr, decayPctHr(planet)), estimated |-> TRUE]

---- (* Requirement calculator *)

NoReqs == [def |-> FALSE, min |-> Undef, recommended |-> Undef, estimated |-> FALSE]

calcPlayerRequirements(snaps, planet, netRateObj, impactMultiplier) ==
  LET decay          == decayPctHr(planet)
      currentPlayers == PlayersOf(planet)
  IN  IF Len(snaps) >= 2 /\ ~netRateObj.estimated THEN
        LET latest           == snaps[Len(snaps)]
            playerCount      == Coalesce(PlayersAt(latest, planet.index), currentPlayers)
            measured         == netRateObj.value
            grossPlayerPctHr == JAdd(measured, decay)
            ratePerPlayer    == JDiv(grossPlayerPctHr, playerCount)
            min              == MathMax(Num(1), MathCeil(JDiv(decay, ratePerPlayer)))
            remaining        == JSub(Num(100), libPct(planet))
            recommended      == MathMax(JMul(min, Num(2)),
                                  MathCeil(JDiv(JAdd(decay, JMul(remaining, Rat(1, 24))),
                                                ratePerPlayer)))
        IN  IF JLt(playerCount, Num(10)) THEN NoReqs
            ELSE IF IsNullish(measured) THEN NoReqs
            ELSE IF JLe(grossPlayerPctHr, Num(0)) THEN NoReqs
            ELSE IF JLe(ratePerPlayer, Num(0)) THEN NoReqs
            ELSE [def |-> TRUE, min |-> min, recommended |-> recommended,
                  estimated |-> FALSE]
      ELSE
        LET imp == Coalesce(impactMultiplier, Rat(5, 1000))
            min == MathCeil(JDiv(decay, JMul(imp, Rat(25, 100))))
        IN  IF JLe(imp, Num(0)) THEN NoReqs
            ELSE [def |-> TRUE, min |-> min, recommended |-> JMul(min, Num(3)),
                  estimated |-> TRUE]

---- (* Condition evaluator *)

\* the hours left of the first connected defense, whatever the others have
MinDefHrOfFirst(connectedDefenses, t) ==
  LET e == EndTimeOf(connectedDefenses[1].planet)
  IN  IF IsNullish(e) THEN PInf ELSE hoursLeft(e, t)

\* Math.min(...connectedDefenses.map(dc => endTime ? hoursLeft(endTime) : Infinity))
\* connectedDefenses is a non-empty sequence of defense campaigns
MinDefHr(connectedDefenses, t) ==
  MathMinSeq([j \in 1..Len(connectedDefenses) |->
    LET e == EndTimeOf(connectedDefenses[j].planet)
    IN  IF IsNullish(e) THEN PInf ELSE hoursLeft(e, t)])

\* timeToComplete != null && isFinite(timeToComplete)
HasEta(timeToComplete) == ~IsNullish(timeToComplete) /\ IsFinite(timeToComplete)

\* A condition row is [label, status, shows, pass]: status is the word the
\* detail text ends with (or opens with) and shows the number it prints,
\* Undef when it prints none.
buildConditions(libCampaign, netRateObj, timeToComplete, connectedDefenses, playerReqs, t) ==
  LET planet  == libCampaign.planet
      libPct_ == libPct(planet)
      players == PlayersOf(planet)
      rate    == netRateObj.value
      c1 == [label  |-> "Liberation progress >= 25%",
             status |-> IF JGe(libPct_, Num(60)) THEN "STRONG"
                        ELSE IF JGe(libPct_, Num(25)) THEN "ADEQUATE" ELSE "LOW",
             shows  |-> libPct_,
             pass   |-> JGe(libPct_, Num(25))]
      c2 == [label  |-> "Net rate positive (liberating > decay)",
             status |-> IF IsNullish(rate) THEN "Insufficient data"
                        ELSE IF JGt(rate, Num(3)) THEN "STRONG"
                        ELSE IF JGt(rate, Num(0)) THEN "MARGINAL"
                        ELSE IF JGt(rate, Num(-2)) THEN "LOSING" ELSE "CRITICAL",
             shows  |-> IF IsNullish(rate) THEN Undef ELSE rate,
             pass   |-> ~IsNullish(rate) /\ JGt(rate, Num(0))]
      c3 == [label  |-> "Liberation completable within 48h",
             status |-> IF ~HasEta(timeToComplete)
                          THEN (IF ~IsNullish(rate) /\ JLe(rate, Num(0))
                                  THEN "IMPOSSIBLE" ELSE "UNKNOWN")
                        ELSE IF JLt(timeToComplete, Num(6)) THEN "VERY FAST"
                        ELSE IF JLt(timeToComplete, Num(12)) THEN "FAST"
                        ELSE IF JLt(timeToComplete, Num(24)) THEN "FEASIBLE" ELSE "SLOW",
             shows  |-> IF HasEta(timeToComplete) THEN timeToComplete ELSE Undef,
             pass   |-> HasEta(timeToComplete) /\ JLe(timeToComplete, Num(48))]
      minDefHr == MinDefHr(connectedDefenses, t)
      pass4    == HasEta(timeToComplete) /\ JLt(timeToComplete, minDefHr)
      c4 == [label  |-> "ETA beats defense expiry",
             status |-> IF ~HasEta(timeToComplete) THEN "ETA unknown"
                        ELSE IF pass4 THEN "buffer" ELSE "TOO SLOW",
             shows  |-> IF HasEta(timeToComplete) THEN timeToComplete ELSE Undef,
             pass   |-> pass4]
      c5 == [label  |-> "Players >= minimum",
             status |-> IF JGe(players, playerReqs.recommended) THEN "SUFFICIENT"
                        ELSE IF JGe(players, playerReqs.min) THEN "ADEQUATE"
                        ELSE "INSUFFICIENT",
             shows  |-> players,
             pass   |-> JGe(players, playerReqs.min)]
  IN  <<c1, c2, c3>>
        \o (IF Len(connectedDefenses) > 0 THEN <<c4>> ELSE << >>)
        \o (IF playerReqs.def THEN <<c5>> ELSE << >>)

---- (* Score calculator *)

\* a count of the rows that fail
Failed(conditions) == Cardinality({i \in 1..Len(conditions) : ~conditions[i].pass})

\* the number of rows that pass
Passed(conditions) == Cardinality({i \in 1..Len(conditions) : conditions[i].pass})

\* a score that counts the progress still to make instead of the progress made
calcSuccessPctByRemaining(libPct_, netRate, timeToComplete, connectedDefenses, conditions, t) ==
  LET progress == JMul(JDiv(JSub(Num(100), MathMin(libPct_, Num(100))), Num(100)), Num(25))
      rate ==
        IF IsNullish(netRate) THEN Num(0)
        ELSE IF JGt(netRate, Num(0))
          THEN JMul(MathMin(JDiv(netRate, Num(5)), Num(1)), Num(30))
          ELSE JMul(MathMax(JDiv(netRate, Num(5)), Num(-1)), Num(10))
      time ==
        IF ~HasEta(timeToComplete) THEN Num(0)
        ELSE IF Len(connectedDefenses) > 0 THEN
          LET minDefHr == MinDefHr(connectedDefenses, t)
              buffer   == JSub(minDefHr, timeToComplete)
          IN  IF JLt(timeToComplete, minDefHr)
                THEN JMul(MathMin(JDiv(buffer, Num(12)), Num(1)), Num(25))
                ELSE Num(-15)
        ELSE JMul(MathMax(Num(0), JSub(Num(1), JDiv(timeToComplete, Num(48)))), Num(25))
      checks ==
        IF Len(conditions) > 0
          THEN JMul(Rat(Passed(conditions), Len(conditions)), Num(20))
          ELSE Num(0)
      score == JAdd(JAdd(JAdd(progress, rate), time), checks)
  IN  MathMax(Num(0), MathMin(Num(100), MathRound(score)))

calcSuccessPct(libPct_, netRate, timeToComplete, connectedDefenses, conditions, t) ==
  LET progress == JMul(JDiv(MathMin(libPct_, Num(100)), Num(100)), Num(25))
      rate ==
        IF IsNullish(netRate) THEN Num(0)
        ELSE IF JGt(netRate, Num(0))
          THEN JMul(MathMin(JDiv(netRate, Num(5)), Num(1)), Num(30))
          ELSE JMul(MathMax(JDiv(netRate, Num(5)), Num(-1)), Num(10))
      time ==
        IF ~HasEta(timeToComplete) THEN Num(0)
        ELSE IF Len(connectedDefenses) > 0 THEN
          LET minDefHr == MinDefHr(connectedDefenses, t)
              buffer   == JSub(minDefHr, timeToComplete)
          IN  IF JLt(timeToComplete, minDefHr)
                THEN JMul(MathMin(JDiv(buffer, Num(12)), Num(1)), Num(25))
                ELSE Num(-15)
        ELSE JMul(MathMax(Num(0), JSub(Num(1), JDiv(timeToComplete, Num(48)))), Num(25))
      checks ==
        IF Len(conditions) > 0
          THEN JMul(Rat(Passed(conditions), Len(conditions)), Num(20))
          ELSE Num(0)
      score == JAdd(JAdd(JAdd(progress, rate), time), checks)
  IN  MathMax(Num(0), MathMin(Num(100), MathRound(score)))

\* tiers that start above their thresholds
toRiskLevelAbove(pct) ==
  IF JGt(pct, Num(85)) THEN "OPTIMAL"
  ELSE IF JGt(pct, Num(70)) THEN "FAVORABLE"
  ELSE IF JGt(pct, Num(55)) THEN "VIABLE"
  ELSE IF JGt(pct, Num(35)) THEN "RISKY"
  ELSE "CRITICAL"

toRiskLevel(pct) ==
  IF JGe(pct, Num(85)) THEN "OPTIMAL"
  ELSE IF JGe(pct, Num(70)) THEN "FAVORABLE"
  ELSE IF JGe(pct, Num(55)) THEN "VIABLE"
  ELSE IF JGe(pct, Num(35)) THEN "RISKY"
  ELSE "CRITICAL"

---- (* Array.prototype.sort *)

\* Array.prototype.sort on an array of n elements, as the order of their
\* positions.  gt[i, j] says that the comparator, called on elements i and j,
\* returned a number > 0 (a NaN result counts as 0).  The sort is stable: an
\* insertion sort that scans from the right.  When the comparator is not a
\* consistent one (a NaN score next to numbers) ECMAScript leaves the order
\* to the engine; the order modelled is then one an engine can produce.
InsertInto(order, x, gt) ==
  LET notAfter == {k \in 1..Len(order) : ~gt[order[k], x]}
      k == IF notAfter = {} THEN 0
           ELSE CHOOSE m \in notAfter : \A o \in notAfter : o <= m
  IN  SubSeq(order, 1, k) \o <<x>> \o SubSeq(order, k + 1, Len(order))

RECURSIVE SortOrder(_, _)
SortOrder(n, gt) ==
  IF n = 0 THEN << >> ELSE InsertInto(SortOrder(n - 1, gt), n, gt)

---- (* Gambit detector *)

\* a supply-line test that follows the waypoints of the first planet only
AdjacentOutward(p, q) == Includes(Waypoints(p), q.index)

\* the supply-line test of detectGambits: either planet lists the other
Adjacent(p, q) ==
  Includes(Waypoints(p), q.index) \/ Includes(Waypoints(q), p.index)

\* array.filter(...), as the sequence of the positions kept; keep is the set
\* of the positions whose element passes the test
RECURSIVE FilterPos(_, _)
FilterPos(n, keep) ==
  IF n = 0 THEN << >>
  ELSE FilterPos(n - 1, keep) \o (IF n \in keep THEN <<n>> ELSE << >>)

\* array.filter(...), as the sequence of the elements kept
Filter(array, keep) ==
  [r \in 1..Len(FilterPos(Len(array), keep)) |-> array[FilterPos(Len(array), keep)[r]]]

\* a detector that never takes the measured rate
NetRateObjEstimated(measured, planet) == estimatedNetRate(planet)

\* measured != null ? { value: measured, estimated: false } : estimatedNetRate(planet)
NetRateObjFrom(measured, planet) ==
  IF ~IsNullish(measured)
    THEN [value |-> measured, estimated |-> FALSE]
    ELSE estimatedNetRate(planet)

\* an ETA computed at any rate, without the netRate > 0 test
TimeToCompleteAtAnyRate(libPct_, netRate) == JDiv(JSub(Num(100), libPct_), netRate)

\* netRate > 0 ? remaining / netRate : null, with remaining = 100 - libPct_
TimeToComplete(libPct_, netRate) ==
  IF JGt(netRate, Num(0)) THEN JDiv(JSub(Num(100), libPct_), netRate) ELSE Null

\* The first half of the loop body for liberationCampaigns[i]: the connected
\* campaigns (positions in the two campaign arrays, in array order), the net
\* rate and the time to complete.
Analysed(i, libs, defs, netRateObj) ==
  LET planet == libs[i].planet
  IN  [camp                |-> i,
       connectedDefenses   |-> FilterPos(Len(defs),
                                 {j \in 1..Len(defs) : Adjacent(planet, defs[j].planet)}),
       connectedLiberation |-> FilterPos(Len(libs),
                                 {j \in 1..Len(libs) :
                                    j # i /\ Adjacent(planet, libs[j].planet)}),
       libPct              |-> libPct(planet),
       netRateObj          |-> netRateObj,
       netRate             |-> netRateObj.value,
       timeToComplete      |-> TimeToComplete(libPct(planet), netRateObj.value),
       players             |-> PlayersOf(planet)]

\* every defense campaign handed on, connected or not
CampaignsOfAll(defs, positions) == defs

\* the defense campaigns at the positions listed
CampaignsOf(defs, positions) == [j \in 1..Len(positions) |-> defs[positions[j]]]

\* a checklist built without the connected defenses
CheckedWithoutDefenses(a, libCampaign, defs, playerReqs, t) ==
  [camp                |-> a.camp,
   connectedDefenses   |-> a.connectedDefenses,
   connectedLiberation |-> a.connectedLiberation,
   libPct              |-> a.libPct,
   netRateObj          |-> a.netRateObj,
   netRate             |-> a.netRate,
   timeToComplete      |-> a.timeToComplete,
   players             |-> a.players,
   playerReqs          |-> playerReqs,
   conditions          |-> buildConditions(libCampaign, a.netRateObj, a.timeToComplete,
                             << >>, playerReqs, t)]

\* ... with the player requirements and the conditions checklist
Checked(a, libCampaign, defs, playerReqs, t) ==
  [camp                |-> a.camp,
   connectedDefenses   |-> a.connectedDefenses,
   connectedLiberation |-> a.connectedLiberation,
   libPct              |-> a.libPct,
   netRateObj          |-> a.netRateObj,
   netRate             |-> a.netRate,
   timeToComplete      |-> a.timeToComplete,
   players             |-> a.players,
   playerReqs          |-> playerReqs,
   conditions          |-> buildConditions(libCampaign, a.netRateObj, a.timeToComplete,
                             CampaignsOf(defs, a.connectedDefenses), playerReqs, t)]

\* ... with the score and the risk level: the gambit object pushed
Scored(c, successPct) ==
  [camp                |-> c.camp,
   connectedDefenses   |-> c.connectedDefenses,
   connectedLiberation |-> c.connectedLiberation,
   libPct              |-> c.libPct,
   netRateObj          |-> c.netRateObj,
   netRate             |-> c.netRate,
   timeToComplete      |-> c.timeToComplete,
   players             |-> c.players,
   playerReqs          |-> c.playerReqs,
   conditions          |-> c.conditions,
   successPct          |-> successPct,
   risk                |-> toRiskLevel(successPct)]

ScoredGambit(c, defs, t) ==
  Scored(c, calcSuccessPct(c.libPct, c.netRate, c.timeToComplete,
                           CampaignsOf(defs, c.connectedDefenses), c.conditions, t))

\* hoursLeft reads Date.now() at each call: t is the clock as buildConditions
\* reads it and t2 the clock as calcSuccessPct reads it after that
CheckedGambit(a, libCampaign, defs, imp, snaps, t, t2) ==
  ScoredGambit(
    Checked(a, libCampaign, defs,
            calcPlayerRequirements(snaps, libCampaign.planet, a.netRateObj, imp), t),
    defs, t2)

\* the gambit object built for liberationCampaigns[i]
GambitAt(i, libs, defs, imp, snaps, t, t2) ==
  CheckedGambit(
    Analysed(i, libs, defs,
      NetRateObjFrom(measuredNetRate(snaps, libs[i].planet.index, libs[i].planet.maxHealth),
                     libs[i].planet)),
    libs[i], defs, imp, snaps, t, t2)

\* the comparator of the final sort returned a number > 0 on (a, b)
RankedAfter(a, b) ==
  LET aHasDef == IF Len(a.connectedDefenses) > 0 THEN 1 ELSE 0
      bHasDef == IF Len(b.connectedDefenses) > 0 THEN 1 ELSE 0
  IN  IF bHasDef # aHasDef THEN bHasDef - aHasDef > 0
      ELSE JGt(JSub(b.successPct, a.successPct), Num(0))

\* a detector whose default impact multiplier is 0.01
ImpactOfDefaultingHigh(war) ==
  Coalesce(IF war.def THEN war.impactMultiplier ELSE Undef, Rat(1, 100))

\* war?.impactMultiplier ?? 0.005
ImpactOf(war) ==
  Coalesce(IF war.def THEN war.impactMultiplier ELSE Undef, Rat(5, 1000))

\* gambits.sort(...): the gambits in ranked order
Ranked(gambits) ==
  SortOrder(Len(gambits),
    [ij \in (1..Len(gambits)) \X (1..Len(gambits)) |->
       RankedAfter(gambits[ij[1]], gambits[ij[2]])])

Reordered(array, order) == [r \in 1..Len(order) |-> array[order[r]]]

SortedGambits(gambits) == Reordered(gambits, Ranked(gambits))

\* detectGambits: [threw, list].  Reading a field of a missing planet record
\* (libPct(planet), lc.planet.index) throws a TypeError, which ends the call.
detectGambits(libs, defs, war, snaps, t, t2) ==
  IF \E i \in 1..Len(libs) : ~libs[i].planet.present
    THEN [threw |-> TRUE, list |-> << >>]
    ELSE [threw |-> FALSE,
          list  |-> SortedGambits([i \in 1..Len(libs) |->
                      GambitAt(i, libs, defs, ImpactOf(war), snaps, t, t2)])]

---- (* Scout detector *)

\* String.prototype.toLowerCase, character by character
LowerOf(c) ==
  CASE c = "H" -> "h" [] c = "U" -> "u" [] c = "M" -> "m" [] c = "A" -> "a"
    [] c = "N" -> "n" [] c = "S" -> "s" [] c = "T" -> "t" [] c = "E" -> "e"
    [] c = "R" -> "r" [] c = "I" -> "i" [] c = "D" -> "d" [] OTHER -> c

toLowerCase(str) == [i \in 1..Len(str) |-> LowerOf(str[i])]

\* String.prototype.includes
StrIncludes(str, sub) ==
  \E i \in 0..(Len(str) - Len(sub)) : SubSeq(str, i + 1, i + Len(sub)) = sub

human == <<"h", "u", "m", "a", "n">>

\* an owner compared as it is spelled, without toLowerCase()
OwnerAsSpelled(planet) == IF planet.owner.def THEN planet.owner.s ELSE << >>

\* (planet.currentOwner ?? '').toLowerCase()
OwnerLower(planet) == toLowerCase(IF planet.owner.def THEN planet.owner.s ELSE << >>)

\* the elements of an array in order of first occurrence: [...new Set(array)]
RECURSIVE Distinct(_)
Distinct(array) ==
  IF array = << >> THEN << >>
  ELSE LET front == Distinct(SubSeq(array, 1, Len(array) - 1))
           x     == array[Len(array)]
       IN  IF Includes(front, x) THEN front ELSE Append(front, x)

\* planetByIndex[idx]: the last planet of allPlanets with that index, or none
HasPlanet(allPlanets, idx) == \E i \in 1..Len(allPlanets) : allPlanets[i].index = idx

PlanetByIndex(allPlanets, idx) ==
  allPlanets[CHOOSE i \in 1..Len(allPlanets) :
    /\ allPlanets[i].index = idx
    /\ \A j \in 1..Len(allPlanets) : allPlanets[j].index = idx => j <= i]

\* the indices the defended planet lists itself, and no others
ConnectedIndicesOutward(defPlanet, allPlanets) == Distinct(Waypoints(defPlanet))

\* new Set([...defPlanet.waypoints, ...planets listing defPlanet]), in insertion order
ConnectedIndices(defPlanet, allPlanets) ==
  Distinct(Waypoints(defPlanet)
           \o Filter([i \in 1..Len(allPlanets) |-> allPlanets[i].index],
                      {i \in 1..Len(allPlanets) :
                         Includes(Waypoints(allPlanets[i]), defPlanet.index)}))

\* the checks of the loop over connectedIndices: not under campaign, a known
\* planet, an owner that is neither empty nor human
IsTarget(idx, active, allPlanets) ==
  /\ idx \notin active
  /\ HasPlanet(allPlanets, idx)
  /\ OwnerLower(PlanetByIndex(allPlanets, idx)) # << >>
  /\ ~StrIncludes(OwnerLower(PlanetByIndex(allPlanets, idx)), human)

Target(planet) ==
  [planet     |-> planet,
   decayPctHr |-> IF Truthy(planet.maxHealth) THEN decayPctHr(planet) ELSE Null]

\* targets.sort((a, b) => (a.decayPctHr ?? Infinity) - (b.decayPctHr ?? Infinity))
SortedTargets(targets) ==
  Reordered(targets,
    SortOrder(Len(targets),
      [ij \in (1..Len(targets)) \X (1..Len(targets)) |->
         JGt(JSub(Coalesce(targets[ij[1]].decayPctHr, PInf),
                  Coalesce(targets[ij[2]].decayPctHr, PInf)), Num(0))]))

TargetsOf(indices, allPlanets) ==
  [i \in 1..Len(indices) |-> Target(PlanetByIndex(allPlanets, indices[i]))]

\* the targets of one defense campaign, sorted: a sequence of [planet, decayPctHr]
ScoutTargets(dc, active, allPlanets) ==
  SortedTargets(TargetsOf(
    Filter(ConnectedIndices(dc.planet, allPlanets),
           {i \in DOMAIN ConnectedIndices(dc.planet, allPlanets) :
              IsTarget(ConnectedIndices(dc.planet, allPlanets)[i], active, allPlanets)}),
    allPlanets))

\* endTime ? new Date(endTime).getTime() : Infinity
Expiry(planet) == IF IsNullish(EndTimeOf(planet)) THEN PInf ELSE EndTimeOf(planet)

\* the results left in the order of the defense campaigns
ResultsAsFound(results, defs) == results

\* results.sort((a, b) => ta - tb)
SortedResults(results, defs) ==
  Reordered(results,
    SortOrder(Len(results),
      [ij \in (1..Len(results)) \X (1..Len(results)) |->
         JGt(JSub(Expiry(defs[results[ij[1]].defenseCampaign].planet),
                  Expiry(defs[results[ij[2]].defenseCampaign].planet)), Num(0))]))

\* the loop over defenseCampaigns: an entry for each campaign with a target
ScoutResults(found) ==
  Filter([j \in 1..Len(found) |-> [defenseCampaign |-> j, targets |-> found[j]]],
         {j \in 1..Len(found) : Len(found[j]) > 0})

\* detectScoutTargets: [threw, list], list a sequence of [defenseCampaign, targets]
\* with defenseCampaign a position in defenseCampaigns.  c.planet.index throws
\* a TypeError on a campaign without a planet record.
detectScoutTargets(defs, libs, allPlanets) ==
  IF \E i \in 1..Len(libs) : ~libs[i].planet.present
    THEN [threw |-> TRUE, list |-> << >>]
    ELSE [threw |-> FALSE,
          list  |-> SortedResults(
                      ScoutResults([j \in 1..Len(defs) |->
                        ScoutTargets(defs[j],
                          {libs[i].planet.index : i \in 1..Len(libs)}
                            \cup {defs[i].planet.index : i \in 1..Len(defs)},
                          allPlanets)]),
                      defs)]

-----------------------------------------------------------------------------
(* The war the API serves.  A galaxy is [planets, trend, campaigns, war]:   *)
(* planets as they stand at clock 0, trend[i] the change of planet i's      *)
(* health per tick, campaigns the planet indices under campaign in API      *)
(* order (0 for a campaign that carries no planet record), and war.         *)

Str(chars) == [def |-> TRUE, s |-> chars]
NoOwner == [def |-> FALSE, s |-> << >>]
Terminid == Str(<<"T", "e", "r", "m", "i", "n", "i", "d">>)
Humans   == Str(<<"H", "u", "m", "a", "n", "s">>)

Wp(idx) == [def |-> TRUE, idx |-> idx]
NoWaypoints == [def |-> FALSE, idx |-> << >>]

NoEvent == [def |-> FALSE, endTime |-> Undef]
Event(endTime) == [def |-> TRUE, endTime |-> endTime]

Planet(i, h, mh, regen, players, owner, wp, ev) ==
  [present |-> TRUE, index |-> i, health |-> h, maxHealth |-> mh,
   regenPerSecond |-> regen, playerCount |-> players, owner |-> owner,
   waypoints |-> wp, event |-> ev]

\* what campaign.planet reads when the campaign carries no planet record
MissingPlanet ==
  [present |-> FALSE, index |-> 0, health |-> Undef, maxHealth |-> Undef,
   regenPerSecond |-> Undef, playerCount |-> Undef, owner |-> NoOwner,
   waypoints |-> NoWaypoints, event |-> NoEvent]

\* the planet array the API returns at clock t
PlanetsAt(g, t) ==
  [i \in 1..Len(g.planets) |->
     LET p == g.planets[i]
     IN  IF p.health.k = "num"
           THEN [p EXCEPT !.health = JAdd(p.health, Num(g.trend[p.index] * t))]
           ELSE p]

\* the campaign array the API returns at clock t; each campaign embeds its planet
CampaignsAt(g, t) ==
  [c \in 1..Len(g.campaigns) |->
     [planet |-> IF g.campaigns[c] = 0 THEN MissingPlanet
                 ELSE PlanetByIndex(PlanetsAt(g, t), g.campaigns[c])]]

\* render's split: (campaigns ?? []).filter(c => !c.planet?.event) and its complement
liberationCampaigns(campaigns) ==
  Filter(campaigns, {c \in 1..Len(campaigns) : ~campaigns[c].planet.event.def})

defenseCampaigns(campaigns) ==
  Filter(campaigns, {c \in 1..Len(campaigns) : campaigns[c].planet.event.def})

-----------------------------------------------------------------------------
(* Galaxies of the engine's specification.  Planet 1 is the planet under   *)
(* study; planets 2 and 5 are other liberation targets, planet 3 a defended *)
(* planet; planets 4, 6 and 7 are under no campaign and list planet 3: an   *)
(* enemy planet, a human one and one without an owner.                      *)

FullHealth == Num(100000)

\* 1 %/h of decay on a planet of FullHealth: regen * 3600 / FullHealth * 100 = 1
SlowRegen == Rat(5, 18)

\* the clock value at which the near defense expires, and the far one
NearEnd == Num(2)
FarEnd  == Num(30000)

\* planet 1: [health, maxHealth, regenPerSecond, playerCount]
Normal ==
  [health |-> Num(60000), maxHealth |-> FullHealth, regenPerSecond |-> SlowRegen, playerCount |-> Num(20000)]

FewPlayers ==
  [health |-> Num(60000), maxHealth |-> FullHealth, regenPerSecond |-> SlowRegen, playerCount |-> Num(5)]

Probes ==
  { Normal,
    FewPlayers,
    [health |-> Num(60000),  maxHealth |-> FullHealth, regenPerSecond |-> Num(0),    playerCount |-> Undef],
    [health |-> FullHealth, maxHealth |-> FullHealth, regenPerSecond |-> SlowRegen, playerCount |-> Num(20000)],
    [health |-> Num(0),      maxHealth |-> FullHealth, regenPerSecond |-> SlowRegen, playerCount |-> Num(20000)],
    [health |-> Num(-5),     maxHealth |-> FullHealth, regenPerSecond |-> SlowRegen, playerCount |-> Num(20000)],
    [health |-> Num(150000), maxHealth |-> FullHealth, regenPerSecond |-> SlowRegen, playerCount |-> Num(20000)],
    [health |-> Num(60000),  maxHealth |-> Num(0),          regenPerSecond |-> Num(0),    playerCount |-> Num(20000)],
    [health |-> Num(60000),  maxHealth |-> Undef,           regenPerSecond |-> SlowRegen, playerCount |-> Num(20000)],
    [health |-> Undef,       maxHealth |-> FullHealth, regenPerSecond |-> SlowRegen, playerCount |-> Num(20000)],
    [health |-> Num(60000),  maxHealth |-> FullHealth, regenPerSecond |-> Undef,     playerCount |-> Num(20000)] }

\* change of planet 1's health per tick: -2 is 2 %/h of progress, 3 is 3 %/h
\* lost; planet 2 makes 1 %/h of progress and the other planets stand still
Trends == {-2, 0, 3}

\* the other liberation campaigns: none, a strong one after planet 1, a campaign
\* without a planet record after planet 1, a weak one before and a strong one
\* after, a strong one after planet 1 that lists planet 1 and itself
Others == {"none", "strong", "norecord", "weak-strong", "linked"}

\* the defense: none; one without end time that lists planet 1; one ending
\* soon and one ending late that planet 1 lists; one ending soon that is not
\* connected
Defenses == {"none", "open", "near", "far", "apart"}

Strong == Planet(2, Num(10000), FullHealth, Num(0), Num(50000), Terminid, Wp(<< >>), NoEvent)
Linked == Planet(2, Num(10000), FullHealth, Num(0), Num(50000), Terminid, Wp(<<1, 2>>), NoEvent)
Weak   == Planet(5, Num(90000), FullHealth, SlowRegen, Num(100), Terminid, NoWaypoints, NoEvent)
Enemy  == Planet(4, Num(50000), FullHealth, SlowRegen, Undef, Terminid, Wp(<<3>>), NoEvent)
Colony == Planet(6, FullHealth, FullHealth, Num(0), Num(40), Humans, Wp(<<3>>), NoEvent)
Wild   == Planet(7, Num(50000), FullHealth, SlowRegen, Undef, NoOwner, Wp(<<3>>), NoEvent)

Defended(d) ==
  Planet(3, FullHealth, FullHealth, Num(0), Num(3000), Humans,
         IF d = "open" THEN Wp(<<1>>) ELSE Wp(<< >>),
         Event(IF d = "open" THEN Undef ELSE IF d = "far" THEN FarEnd ELSE NearEnd))

Galaxy(probe, trend, other, d) ==
  LET p1 == Planet(1, probe.health, probe.maxHealth, probe.regenPerSecond,
                   probe.playerCount, Terminid,
                   IF d \in {"near", "far"} THEN Wp(<<3>>) ELSE NoWaypoints, NoEvent)
  IN  [planets   |-> <<p1>>
                     \o (IF other \in {"strong", "weak-strong"} THEN <<Strong>> ELSE << >>)
                     \o (IF other = "linked" THEN <<Linked>> ELSE << >>)
                     \o (IF d # "none" THEN <<Defended(d)>> ELSE << >>)
                     \o <<Enemy, Colony, Wild>>
                     \o (IF other = "weak-strong" THEN <<Weak>> ELSE << >>),
       trend     |-> [i \in 1..7 |-> IF i = 1 THEN trend ELSE IF i = 2 THEN -1 ELSE 0],
       campaigns |-> (IF other = "weak-strong" THEN <<5>> ELSE << >>)
                     \o <<1>>
                     \o (IF other \in {"strong", "weak-strong", "linked"} THEN <<2>> ELSE << >>)
                     \o (IF other = "norecord" THEN <<0>> ELSE << >>)
                     \o (IF d # "none" THEN <<3>> ELSE << >>),
       war       |-> [def |-> TRUE, impactMultiplier |-> Rat(1, 100)]]

\* every combination for the two ordinary probes, the linked campaign left
\* to one of them; the other probes alone or between two campaigns, with no
\* defense, the near one or the unconnected one
Galaxies ==
  {Galaxy(probe, trend, other, d) :
     probe \in {Normal, FewPlayers}, trend \in Trends, other \in Others \ {"linked"},
     d \in Defenses}
  \cup
  {Galaxy(Normal, -2, "linked", d) : d \in {"none", "open", "near"}}
  \cup
  {Galaxy(probe, trend, other, d) :
     probe \in Probes, trend \in Trends, other \in {"none", "weak-strong"},
     d \in {"none", "near", "apart"}}

-----------------------------------------------------------------------------
(* The engine: recordSnapshot, detectGambits and detectScoutTargets called  *)
(* by their client in any order, while time passes.                         *)

\* bounds of the model: the clock and the number of recordSnapshot calls
MaxTime    == 3
MaxRecords == 2

NoResult == [threw |-> FALSE, list |-> << >>]

NoCalc == [fn |-> "none", done |-> FALSE]

NoPass ==
  [at |-> -1, liberationCampaigns |-> << >>, defenseCampaigns |-> << >>,
   allPlanets |-> << >>, snaps |-> << >>, gambits |-> NoResult, scout |-> NoResult]

\* a detection pass at clock t over the store snaps: detectGambits, then
\* detectScoutTargets (renderScout), with what they were given and returned.
\* The engine's clock has ticks of 3.6 s and the pass is one synchronous run,
\* taken to read the same tick throughout.
DetectionPass(libs, defs, planets, war, snaps, t) ==
  [at |-> t, liberationCampaigns |-> libs, defenseCampaigns |-> defs,
   allPlanets |-> planets, snaps |-> snaps,
   gambits |-> detectGambits(libs, defs, war, snaps, t, t),
   scout   |-> detectScoutTargets(defs, libs, planets)]

Init ==
  /\ galaxy \in Galaxies
  /\ now = 0
  /\ snapshots = << >>
  /\ recorded = << >>
  /\ state = [liberationCampaigns |-> << >>, defenseCampaigns |-> << >>, allPlanets |-> << >>]
  /\ pass = NoPass
  /\ fetches = << >>
  /\ started = 0
  /\ calc = NoCalc

\* time passes
Elapse ==
  /\ now < MaxTime
  /\ now' = now + 1
  /\ UNCHANGED <<galaxy, snapshots, recorded, state, pass, fetches, started, calc>>

\* recordSnapshot(planets) on the planet array as it stands; no detection
\* pass has run on the new store yet
Record ==
  /\ Len(recorded) < MaxRecords
  /\ snapshots' = recordSnapshot(snapshots, PlanetsAt(galaxy, now), now)
  /\ recorded' = Append(recorded, SnapshotEntry(PlanetsAt(galaxy, now), now))
  /\ pass' = NoPass
  /\ UNCHANGED <<galaxy, now, state, fetches, started, calc>>

\* detectGambits and detectScoutTargets on the campaigns as they stand
Detect ==
  /\ pass' = DetectionPass(liberationCampaigns(CampaignsAt(galaxy, now)),
                           defenseCampaigns(CampaignsAt(galaxy, now)),
                           PlanetsAt(galaxy, now), galaxy.war, snapshots, now)
  /\ pass' # pass
  /\ UNCHANGED <<galaxy, now, snapshots, recorded, state, fetches, started, calc>>

Next == Elapse \/ Record \/ Detect

Spec == Init /\ [][Next]_vars

-----------------------------------------------------------------------------
(* The application: refresh() is started by the page load, by the 60 s      *)
(* timer and by the refresh button, awaits fetchAll() and renders.  The API *)
(* answers a request with the war as it stood when the request was made;    *)
(* the answer arrives at any later time, so refreshes overlap.  fetches is  *)
(* the requests in flight, in the order their refreshes started.            *)

\* bounds of the model: refreshes started, refreshes awaiting their fetch,
\* and the clock
MaxRefreshes == 7
MaxInFlight  == 2
MaxAppTime   == 1

AppGalaxies ==
  {Galaxy(Normal, trend, other, "near") : trend \in {-2}, other \in {"strong", "norecord"}}

InitApp ==
  /\ galaxy \in AppGalaxies
  /\ now = 0
  /\ snapshots = << >>
  /\ recorded = << >>
  /\ state = [liberationCampaigns |-> << >>, defenseCampaigns |-> << >>, allPlanets |-> << >>]
  /\ pass = NoPass
  /\ fetches = << >>
  /\ started = 0
  /\ calc = NoCalc

\* what fetchAll() resolves to for the request f
DataOf(f) ==
  [war       |-> galaxy.war,
   campaigns |-> CampaignsAt(galaxy, f.at),
   planets   |-> PlanetsAt(galaxy, f.at)]

\* renderLiberation reads fields of campaign.planet (the sort's comparator,
\* renderPlanetCard): a campaign without a planet record throws a TypeError
renderLiberationThrows(campaigns) ==
  \E c \in 1..Len(campaigns) : ~campaigns[c].planet.present

\* fetches without its i-th request
Settled(i) == SubSeq(fetches, 1, i - 1) \o SubSeq(fetches, i + 1, Len(fetches))

\* time passes
ElapseApp ==
  /\ now < MaxAppTime
  /\ now' = now + 1
  /\ UNCHANGED <<galaxy, snapshots, recorded, state, pass, fetches, started, calc>>

\* refresh() up to its await: a request is in flight
StartRefresh ==
  /\ started < MaxRefreshes
  /\ Len(fetches) < MaxInFlight
  /\ started' = started + 1
  /\ fetches' = Append(fetches, [at |-> now])
  /\ UNCHANGED <<galaxy, now, snapshots, recorded, state, pass, calc>>

\* a render that runs the detection pass before it records the snapshot
renderDetectsFirst(data, snaps, t) ==
  [state    |-> [liberationCampaigns |-> liberationCampaigns(data.campaigns),
                 defenseCampaigns    |-> defenseCampaigns(data.campaigns),
                 allPlanets          |-> data.planets],
   recorded |-> ~renderLiberationThrows(liberationCampaigns(data.campaigns)),
   snaps    |-> IF renderLiberationThrows(liberationCampaigns(data.campaigns))
                  THEN snaps
                  ELSE recordSnapshot(snaps, data.planets, t),
   pass     |-> IF renderLiberationThrows(liberationCampaigns(data.campaigns))
                  THEN NoPass
                  ELSE DetectionPass(liberationCampaigns(data.campaigns),
                                     defenseCampaigns(data.campaigns),
                                     data.planets, data.war, snaps, t)]

\* render(data) on the store snaps at clock t, up to its end or to the
\* exception that refresh() catches: what it leaves in state and in the
\* store, whether it got to recordSnapshot, and the detection pass it ran
render(data, snaps, t) ==
  [state    |-> [liberationCampaigns |-> liberationCampaigns(data.campaigns),
                 defenseCampaigns    |-> defenseCampaigns(data.campaigns),
                 allPlanets          |-> data.planets],
   recorded |-> ~renderLiberationThrows(liberationCampaigns(data.campaigns)),
   snaps    |-> IF renderLiberationThrows(liberationCampaigns(data.campaigns))
                  THEN snaps
                  ELSE recordSnapshot(snaps, data.planets, t),
   pass     |-> IF renderLiberationThrows(liberationCampaigns(data.campaigns))
                  THEN NoPass
                  ELSE DetectionPass(liberationCampaigns(data.campaigns),
                                     defenseCampaigns(data.campaigns),
                                     data.planets, data.war,
                                     recordSnapshot(snaps, data.planets, t), t)]

\* the effect of a render on the variables
Rendered(r, entry) ==
  /\ state' = r.state
  /\ snapshots' = r.snaps
  /\ recorded' = IF r.recorded THEN Append(recorded, entry) ELSE recorded
  /\ pass' = IF r.recorded THEN r.pass ELSE pass

\* fetchAll() resolves and refresh() runs render(data)
FetchOk ==
  \E i \in 1..Len(fetches) :
    /\ fetches' = Settled(i)
    /\ Rendered(render(DataOf(fetches[i]), snapshots, now),
                SnapshotEntry(DataOf(fetches[i]).planets, now))
    /\ UNCHANGED <<galaxy, now, started, calc>>

\* a catch block that keeps the planet list of the request that did succeed
FetchFailRendering ==
  \E i \in 1..Len(fetches) :
    /\ fetches' = Settled(i)
    /\ state' = [state EXCEPT !.allPlanets = DataOf(fetches[i]).planets]
    /\ UNCHANGED <<galaxy, now, snapshots, recorded, pass, started, calc>>

\* one of the four requests fails (HTTP 429, another status): fetchAll()
\* rejects and refresh() goes to its catch block
FetchFail ==
  \E i \in 1..Len(fetches) :
    /\ fetches' = Settled(i)
    /\ UNCHANGED <<galaxy, now, snapshots, recorded, state, pass, started, calc>>

NextApp == ElapseApp \/ StartRefresh \/ FetchOk \/ FetchFail

SpecApp == InitApp /\ [][NextApp]_vars
-----------------------------------------------------------------------------
(* The engine's functions called on their own, on arguments drawn from      *)
(* bounded sets; calc keeps the call: the function, its arguments, its      *)
(* result.  A store handed to a function is one recordSnapshot builds.      *)

\* bound of the model: the number of snapshots recorded into a store
MaxReadings == 3

\* ticks between two recordSnapshot calls: under, at and over the 0.002 h
\* threshold of measuredNetRate
Gaps == {0, 1, 2, 3}

\* planet 1 as the calls below see it
Subject(health, maxHealth, regen, players) ==
  Planet(1, health, maxHealth, regen, players, Terminid, NoWaypoints, NoEvent)

\* The recordSnapshot calls that build a store, at most n of them: [gap,
\* planets] each, gap the ticks since the call before (the first call is made
\* at clock 0) and planets the planet array recorded.
ReadingsOf(n, gaps, planetArrays) ==
  UNION {{r \in [1..m -> [gap : gaps \cup {0}, planets : planetArrays]] :
            /\ m > 0 => r[1].gap = 0
            /\ \A i \in 2..m : r[i].gap \in gaps} : m \in 0..n}

\* Date.now() at the i-th call
RECURSIVE TimeOf(_, _)
TimeOf(readings, i) ==
  IF i = 0 THEN 0 ELSE TimeOf(readings, i - 1) + readings[i].gap

\* the store after the first n of the calls
RECURSIVE StoreAfter(_, _)
StoreAfter(readings, n) ==
  IF n = 0 THEN << >>
  ELSE recordSnapshot(StoreAfter(readings, n - 1), readings[n].planets,
                      TimeOf(readings, n))

StoreOf(readings) == StoreAfter(readings, Len(readings))

\* planet arrays with planet 1 absent, without a health, and at three healths
MeasuredArrays(maxHealth) ==
  {<< >>} \cup
  {<<Subject(health, maxHealth, SlowRegen, Num(1000))>> :
     health \in {Undef, Num(59990), Num(60000), Num(60010)}}

\* measuredNetRate(1, maxHealth) on a store
MeasureCalls ==
  {[fn          |-> "measuredNetRate",
    snaps       |-> StoreOf(readings),
    planetIndex |-> 1,
    maxHealth   |-> FullHealth,
    done        |-> FALSE,
    out         |-> Undef] :
     readings \in ReadingsOf(MaxReadings, Gaps, MeasuredArrays(FullHealth))}

\* the planet of the worked example: regenPerSecond 0.001, maxHealth 1,000,000,
\* 20,000 players
Example(health) == Subject(health, Num(1000000), Rat(1, 1000), Num(20000))

EstimatePlanets ==
  {Example(health) : health \in {Num(0), Num(600000), Num(1000000)}}
  \cup {Subject(p.health, p.maxHealth, p.regenPerSecond, p.playerCount) : p \in Probes}

\* estimatedNetRate(planet)
EstimateCalls ==
  {[fn |-> "estimatedNetRate", planet |-> planet, done |-> FALSE, out |-> Undef] :
     planet \in EstimatePlanets}

\* planet arrays with planet 1 absent and with planet 1 at several player counts
CountedArrays ==
  {<< >>} \cup
  {<<Subject(Num(60000), FullHealth, SlowRegen, players)>> :
     players \in {Num(5), Num(9), Num(10), Num(1000)}}

\* net rate objects: measured or estimated, at a loss, at a loss decay
\* outweighs, at rest and at a gain
NetRateObjs ==
  {[value |-> value, estimated |-> estimated] :
     value \in {Num(-3), Num(-1), Rat(-1, 2), Num(0), Rat(5, 2)}, estimated \in BOOLEAN}

\* calcPlayerRequirements(planet, netRateObj, impactMultiplier) on a store
RequirementCalls ==
  {[fn               |-> "calcPlayerRequirements",
    snaps            |-> StoreOf(readings),
    planet           |-> Subject(Num(60000), FullHealth, regen, players),
    netRateObj       |-> netRateObj,
    impactMultiplier |-> imp,
    done             |-> FALSE,
    out              |-> Undef] :
     readings \in ReadingsOf(2, {2}, CountedArrays),
     regen \in {Num(0), SlowRegen}, players \in {Num(5), Num(1000)},
     netRateObj \in NetRateObjs,
     imp \in {Rat(5, 1000), Rat(1, 100), Num(0), Rat(-1, 100)}}

\* condition rows as far as calcSuccessPct reads them: n rows, the first k pass
Rows(n, k) == [i \in 1..n |-> [pass |-> i <= k]]

LibPcts == {Num(0), Num(10), Num(25), Num(40), Num(100), Num(120)}

NetRates == {Null, Num(-8), Num(-3), Num(0), Rat(1, 2), Rat(5, 2), Num(5), Num(8)}

\* calcSuccessPct(libPct, netRate, timeToComplete, connectedDefenses, conditions)
\* at clock 0: with and without an ETA, with no defense, with one that ends
\* within the hour or late or has no end time
ScoreCalls ==
  {[fn                |-> "calcSuccessPct",
    libPct            |-> libPct_,
    netRate           |-> netRate,
    timeToComplete    |-> timeToComplete,
    connectedDefenses |-> connectedDefenses,
    conditions        |-> Rows(n, k),
    at                |-> 0,
    done              |-> FALSE,
    out               |-> Undef] :
     libPct_ \in LibPcts, netRate \in NetRates,
     timeToComplete \in {Null, Num(1), Num(24), Num(60)},
     connectedDefenses \in {<< >>} \cup
       {<<[planet |-> Defended(d)]>> : d \in {"open", "near", "far"}},
     n \in {0, 3, 5}, k \in 0..5}

\* the war object: absent, without impactMultiplier, and with one that is
\* zero, negative, positive
Wars ==
  {[def |-> FALSE, impactMultiplier |-> Undef]} \cup
  {[def |-> TRUE, impactMultiplier |-> imp] :
     imp \in {Undef, Null, Num(0), Rat(-1, 100), Rat(1, 100)}}

\* planet arrays with planet 1 at three healths
WatchedArrays ==
  {<<Subject(health, FullHealth, SlowRegen, Num(1000))>> :
     health \in {Num(59999), Num(60000), Num(60010)}}

\* detectGambits([campaign on planet 1], [], war) on a store, at the clock of
\* the last snapshot; planet 1 stands at 40 %
DetectCalls ==
  {[fn                  |-> "detectGambits",
    liberationCampaigns |-> <<[planet |-> Subject(Num(60000), FullHealth, regen, players)]>>,
    defenseCampaigns    |-> << >>,
    war                 |-> war,
    snaps               |-> StoreOf(readings),
    at                  |-> TimeOf(readings, Len(readings)),
    at2                 |-> TimeOf(readings, Len(readings)),
    done                |-> FALSE,
    out                 |-> Undef] :
     readings \in ReadingsOf(2, {2, 4}, WatchedArrays),
     regen \in {Num(0), SlowRegen}, players \in {Num(5), Num(1000)},
     war \in Wars}

\* detectGambits([campaign on planet 1], [defense of planet 3], war) on a
\* store, for a planet 1 that lists planet 3 and stands at 40 %: measured at
\* 5 %/h it is 12 h from liberation.  The defense ends at a clock value
\* around 12 h from the call, or late, or has no end time; at is the clock at
\* the first hoursLeft call of the pass and at2 the clock at the later ones,
\* the same tick or the next one
TimedDetectCalls ==
  {[fn                  |-> "detectGambits",
    liberationCampaigns |-> <<[planet |-> Planet(1, Num(60000), FullHealth, SlowRegen,
                                                 Num(1000), Terminid, Wp(<<3>>), NoEvent)]>>,
    defenseCampaigns    |-> <<[planet |-> Planet(3, FullHealth, FullHealth, Num(0), Num(3000),
                                                 Humans, Wp(<< >>), Event(endTime))]>>,
    war                 |-> [def |-> TRUE, impactMultiplier |-> Rat(1, 100)],
    snaps               |-> StoreOf(readings),
    at                  |-> TimeOf(readings, Len(readings)),
    at2                 |-> TimeOf(readings, Len(readings)) + tick,
    done                |-> FALSE,
    out                 |-> Undef] :
     readings \in ReadingsOf(2, {2, 4}, WatchedArrays),
     endTime \in {Undef, Num(12002), Num(12003), Num(12004), Num(12005), Num(20000)},
     tick \in {0, 1}}

\* buildConditions(libCampaign, netRateObj, timeToComplete, connectedDefenses,
\* playerReqs) at clocks 0, 1 and 3: without an ETA, with an infinite one and
\* with finite ones; with up to two connected defenses, each without end time
\* or ending at clock 2 or at clock 30000; with and without a requirement
ConditionCalls ==
  {[fn                |-> "buildConditions",
    libCampaign       |-> [planet |-> Subject(Num(60000), FullHealth, SlowRegen, Num(1000))],
    netRateObj        |-> [value |-> Rat(5, 2), estimated |-> FALSE],
    timeToComplete    |-> timeToComplete,
    connectedDefenses |-> [j \in 1..Len(ds) |-> [planet |-> Defended(ds[j])]],
    playerReqs        |-> playerReqs,
    at                |-> t,
    done              |-> FALSE,
    out               |-> Undef] :
     timeToComplete \in {Null, PInf, Rat(1, 1000), Rat(2, 1000), Num(1), Num(30), Num(60)},
     ds \in UNION {[1..n -> {"open", "near", "far"}] : n \in 0..2},
     playerReqs \in {NoReqs, [def |-> TRUE, min |-> Num(800), recommended |-> Num(2400),
                              estimated |-> TRUE]},
     t \in {0, 1, 3}}

\* toRiskLevel(pct) on every score of 0..100
RiskCalls ==
  {[fn |-> "toRiskLevel", pct |-> Num(pct), done |-> FALSE, out |-> Undef] : pct \in 0..100}

\* the calls made
\* a sector of two defended planets, 3 and 8.  Planet 3 is listed by planet 1
\* (under liberation), 4 (enemy), 6 (human), 7 (no owner) and 10 (enemy, no
\* maxHealth) and lists wp3, in which 12 is no planet of the array; planet 8
\* is listed by planet 9 alone
Sector(wp3, end3, end8, regen9, owner9) ==
  << Planet(1, Num(60000), FullHealth, SlowRegen, Num(20000), Terminid, Wp(<<3>>), NoEvent),
     Planet(3, FullHealth, FullHealth, Num(0), Num(3000), Humans, Wp(wp3), Event(end3)),
     Enemy, Colony, Wild,
     Planet(8, FullHealth, FullHealth, Num(0), Num(500), Humans, NoWaypoints, Event(end8)),
     Planet(9, Num(50000), FullHealth, regen9, Undef, owner9, Wp(<<8>>), NoEvent),
     Planet(10, Num(50000), Num(0), SlowRegen, Undef, Terminid, Wp(<<3>>), NoEvent) >>

Sectors ==
  {Sector(wp3, end3, end8, regen9, owner9) :
     wp3 \in {<< >>, <<9>>, <<9, 10, 12>>},
     end3 \in {Undef, NearEnd, FarEnd}, end8 \in {Undef, NearEnd, FarEnd},
     regen9 \in {Num(0), SlowRegen, JMul(Num(2), SlowRegen)},
     owner9 \in {Terminid, Humans}}

\* detectScoutTargets(the campaigns on planets 3 and 8 in either order, [the
\* campaign on planet 1], the sector)
ScoutCalls ==
  {[fn                  |-> "detectScoutTargets",
    defenseCampaigns    |-> [j \in 1..2 |-> [planet |-> PlanetByIndex(sector, order[j])]],
    liberationCampaigns |-> <<[planet |-> PlanetByIndex(sector, 1)]>>,
    allPlanets          |-> sector,
    done                |-> FALSE,
    out                 |-> Undef] :
     sector \in Sectors, order \in {<<3, 8>>, <<8, 3>>}}

Calls ==
  MeasureCalls \cup EstimateCalls \cup RequirementCalls \cup ScoreCalls \cup DetectCalls
    \cup TimedDetectCalls \cup RiskCalls \cup ConditionCalls \cup ScoutCalls

InitCalc ==
  /\ galaxy = Galaxy(Normal, 0, "none", "none")
  /\ now = 0
  /\ snapshots = << >>
  /\ recorded = << >>
  /\ state = [liberationCampaigns |-> << >>, defenseCampaigns |-> << >>, allPlanets |-> << >>]
  /\ pass = NoPass
  /\ fetches = << >>
  /\ started = 0
  /\ calc \in Calls

\* the call returns
Returned(out) ==
  /\ ~calc.done
  /\ calc' = [calc EXCEPT !.done = TRUE, !.out = out]
  /\ UNCHANGED <<galaxy, now, snapshots, recorded, state, pass, fetches, started>>

ApplyMeasure ==
  /\ calc.fn = "measuredNetRate"
  /\ Returned(measuredNetRate(calc.snaps, calc.planetIndex, calc.maxHealth))

ApplyEstimate ==
  /\ calc.fn = "estimatedNetRate"
  /\ Returned(estimatedNetRate(calc.planet))

ApplyRequirements ==
  /\ calc.fn = "calcPlayerRequirements"
  /\ Returned(calcPlayerRequirements(calc.snaps, calc.planet, calc.netRateObj,
                                     calc.impactMultiplier))

ApplyScore ==
  /\ calc.fn = "calcSuccessPct"
  /\ Returned(calcSuccessPct(calc.libPct, calc.netRate, calc.timeToComplete,
                             calc.connectedDefenses, calc.conditions, calc.at))

ApplyDetect ==
  /\ calc.fn = "detectGambits"
  /\ Returned(detectGambits(calc.liberationCampaigns, calc.defenseCampaigns, calc.war,
                            calc.snaps, calc.at, calc.at2))

ApplyRisk ==
  /\ calc.fn = "toRiskLevel"
  /\ Returned(toRiskLevel(calc.pct))

ApplyConditions ==
  /\ calc.fn = "buildConditions"
  /\ Returned(buildConditions(calc.libCampaign, calc.netRateObj, calc.timeToComplete,
                              calc.connectedDefenses, calc.playerReqs, calc.at))

ApplyScout ==
  /\ calc.fn = "detectScoutTargets"
  /\ Returned(detectScoutTargets(calc.defenseCampaigns, calc.liberationCampaigns,
                                 calc.allPlanets))

NextCalc ==
  ApplyMeasure \/ ApplyEstimate \/ ApplyRequirements \/ ApplyScore \/ ApplyDetect
    \/ ApplyRisk \/ ApplyConditions \/ ApplyScout

SpecCalc == InitCalc /\ [][NextCalc]_vars
-----------------------------------------------------------------------------
(* Properties.  Those of the engine are stated of the last detection pass   *)
(* (pass) and of the store; those of the application of its refreshes;      *)
(* those of a single function of the call made of it (calc).                *)

\* a detection pass has run since the last snapshot was recorded
Detected == pass.at # -1

\* the gambits the last detection pass returned
Gambits == pass.gambits.list

\* the planet indices a galaxy may use
Indices == 1..7

\* C1: after any sequence of recordSnapshot calls the store holds at most 6
\* entries, and they are exactly the most recently recorded min(n, 6)
\* snapshots in recording order (the 7th evicts the oldest and nothing else).
StoreHoldsLastSix ==
  /\ Len(snapshots) <= 6
  /\ Len(snapshots) = (IF Len(recorded) < 6 THEN Len(recorded) ELSE 6)
  /\ \A k \in 1..Len(snapshots) :
       snapshots[k] = recorded[Len(recorded) - Len(snapshots) + k]

\* a 7th snapshot has been recorded and the first one, which differs from
\* the second, is gone
SeventhEvictsOldest ==
  /\ Len(recorded) = 7
  /\ Len(snapshots) = 6
  /\ recorded[1] # recorded[2]
  /\ snapshots[1] = recorded[2]

\* the entry holds no health value for the planet
NoHealthIn(entry, idx) ==
  idx \notin DOMAIN entry.health \/ entry.health[idx].k \in {"undef", "null"}

\* the maxHealth detectGambits would pass for the planet, as it stands
MaxHealthNow(idx) ==
  IF HasPlanet(PlanetsAt(galaxy, now), idx)
    THEN PlanetByIndex(PlanetsAt(galaxy, now), idx).maxHealth
    ELSE FullHealth

\* C2: measuredNetRate returns null whenever fewer than 2 snapshots are
\* stored, whenever the two most recent ones are less than 7.2 s (2 ticks)
\* apart, and whenever either of them has no health value for the planet.
MeasuredUnknown ==
  \A idx \in Indices :
    (\/ Len(snapshots) < 2
     \/ snapshots[Len(snapshots)].ts - snapshots[Len(snapshots) - 1].ts < 2
     \/ NoHealthIn(snapshots[Len(snapshots)], idx)
     \/ NoHealthIn(snapshots[Len(snapshots) - 1], idx))
    => measuredNetRate(snapshots, idx, MaxHealthNow(idx)) = Null

\* two snapshots 3.6 s apart, both with planet 1's health, and a detection
\* pass that fell back on the estimated rate for planet 1
TooCloseToMeasure ==
  /\ Detected
  /\ Len(snapshots) = 2
  /\ snapshots[2].ts - snapshots[1].ts = 1
  /\ ~NoHealthIn(snapshots[1], 1) /\ ~NoHealthIn(snapshots[2], 1)
  /\ \E g \in 1..Len(Gambits) :
       /\ pass.liberationCampaigns[Gambits[g].camp].planet.index = 1
       /\ Gambits[g].netRateObj.estimated
\* v is a number of [0, 100]
InPercentRange(v) == v.k = "num" /\ 0 <= v.n /\ v.n <= 100 * v.d

\* v is a whole number
IsInteger(v) == v.k = "num" /\ v.d = 1

\* the liberation campaign a gambit is about
CampaignOf(gambit) == pass.liberationCampaigns[gambit.camp]

\* C3: for every gambit produced by detectGambits, the libPct of its planet
\* is in [0, 100] and its successPct is an integer of [0, 100], whatever the
\* planet's health, maxHealth, regenPerSecond and player count.
ScoresInRange ==
  \A g \in 1..Len(Gambits) :
    /\ InPercentRange(libPct(CampaignOf(Gambits[g]).planet))
    /\ InPercentRange(Gambits[g].libPct)
    /\ IsInteger(Gambits[g].successPct)
    /\ InPercentRange(Gambits[g].successPct)

\* the gambit has at least one connected defense
HasDefense(gambit) == Len(gambit.connectedDefenses) > 0

\* C4: in the list detectGambits returns, every gambit with a connected
\* defense precedes every gambit with none, and within each of the two groups
\* successPct is non-increasing along the list.
RankedAsClaimed ==
  \A a, b \in 1..Len(Gambits) :
    a < b =>
      /\ HasDefense(Gambits[b]) => HasDefense(Gambits[a])
      /\ HasDefense(Gambits[a]) = HasDefense(Gambits[b])
           => JGe(Gambits[a].successPct, Gambits[b].successPct)

\* the indices of the planets under a campaign of the last pass
ActiveIndices ==
  {pass.liberationCampaigns[i].planet.index : i \in 1..Len(pass.liberationCampaigns)}
    \cup {pass.defenseCampaigns[i].planet.index : i \in 1..Len(pass.defenseCampaigns)}

\* the owner's name holds "human", in any case
HumanOwned(planet) == planet.owner.def /\ StrIncludes(toLowerCase(planet.owner.s), human)

\* the planet has no owner, or an empty one
Unowned(planet) == ~planet.owner.def \/ planet.owner.s = << >>

\* C5: no target returned by detectScoutTargets is the planet of a liberation
\* or defense campaign passed in, none has a human owner, and none has a
\* missing or empty owner.
ScoutTargetsAreOpenEnemies ==
  \A r \in 1..Len(pass.scout.list) :
    \A k \in 1..Len(pass.scout.list[r].targets) :
      /\ pass.scout.list[r].targets[k].planet.index \notin ActiveIndices
      /\ ~HumanOwned(pass.scout.list[r].targets[k].planet)
      /\ ~Unowned(pass.scout.list[r].targets[k].planet)

\* planet p is one supply-line hop from planet q
OneHop(p, q) == Includes(Waypoints(p), q.index) \/ Includes(Waypoints(q), p.index)

\* a scout result with a target, for a defense that also has a human
\* neighbour, a neighbour without owner and a neighbour under campaign
ScoutSkippedNeighbours ==
  \E r \in 1..Len(pass.scout.list) :
    /\ Len(pass.scout.list[r].targets) > 0
    /\ \E i, j, k \in 1..Len(pass.allPlanets) :
         /\ HumanOwned(pass.allPlanets[i])
         /\ Unowned(pass.allPlanets[j])
         /\ pass.allPlanets[k].index \in ActiveIndices
         /\ \A n \in {i, j, k} :
              OneHop(pass.allPlanets[n],
                     pass.defenseCampaigns[pass.scout.list[r].defenseCampaign].planet)

\* C6: for every gambit whose net rate is <= 0, timeToComplete is null and
\* the "Liberation completable within 48h" condition fails with an IMPOSSIBLE
\* or UNKNOWN detail and no numeric ETA; timeToComplete is remaining / rate
\* only when the rate is > 0.
NoEtaWithoutProgress ==
  \A g \in 1..Len(Gambits) :
    /\ Gambits[g].conditions[3].label = "Liberation completable within 48h"
    /\ JLe(Gambits[g].netRate, Num(0)) =>
         /\ Gambits[g].timeToComplete = Null
         /\ ~Gambits[g].conditions[3].pass
         /\ Gambits[g].conditions[3].status \in {"IMPOSSIBLE", "UNKNOWN"}
         /\ Gambits[g].conditions[3].shows = Undef
    /\ Gambits[g].timeToComplete # Null =>
         /\ JGt(Gambits[g].netRate, Num(0))
         /\ Gambits[g].timeToComplete =
              JDiv(JSub(Num(100), Gambits[g].libPct), Gambits[g].netRate)

\* a pass with a gambit measured as losing ground, reported IMPOSSIBLE, and a
\* gambit with a positive rate and an ETA
LosingAndWinningGambits ==
  /\ \E g \in 1..Len(Gambits) :
       /\ ~Gambits[g].netRateObj.estimated
       /\ JLt(Gambits[g].netRate, Num(0))
       /\ Gambits[g].conditions[3].status = "IMPOSSIBLE"
  /\ \E g \in 1..Len(Gambits) :
       /\ JGt(Gambits[g].netRate, Num(0))
       /\ Gambits[g].timeToComplete.k = "num"

\* campaign i of the last pass has no gambit in its result
Excluded(i) == \A g \in 1..Len(Gambits) : Gambits[g].camp # i

\* campaign i of the last pass is one hop from no defense campaign
Unconnected(i) ==
  \A j \in 1..Len(pass.defenseCampaigns) :
    ~OneHop(pass.liberationCampaigns[i].planet, pass.defenseCampaigns[j].planet)

\* C7: detectGambits leaves a liberation campaign out of its result exactly
\* when the campaign has zero liberation progress and no connected defense.
ExcludedAsClaimed ==
  (Detected /\ ~pass.gambits.threw) =>
    \A i \in 1..Len(pass.liberationCampaigns) :
      Excluded(i) <=>
        (libPct(pass.liberationCampaigns[i].planet) = Num(0) /\ Unconnected(i))

\* C8: no exception escapes a detection pass, and detectGambits returns a
\* gambit for every campaign that has a planet record, whatever data the
\* other campaigns lack.
PassSurvivesMissingData ==
  Detected =>
    /\ ~pass.gambits.threw
    /\ \A i \in 1..Len(pass.liberationCampaigns) :
         pass.liberationCampaigns[i].planet.present => ~Excluded(i)

\* C9: a refresh that renders records exactly one snapshot and runs its
\* detection pass after it, on the store that ends with its own snapshot
\* preceded by the snapshot recorded just before; no detection pass runs
\* without its record, and no other refresh records in between.
RecordThenDetect ==
  [][(recorded' # recorded \/ pass' # pass) =>
       /\ recorded' = Append(recorded, SnapshotEntry(state'.allPlanets, now))
       /\ pass'.at = now
       /\ pass'.allPlanets = state'.allPlanets
       /\ pass'.snaps = snapshots'
       /\ pass'.snaps[Len(pass'.snaps)] = recorded'[Len(recorded')]
       /\ Len(recorded) > 0 =>
            pass'.snaps[Len(pass'.snaps) - 1] = recorded[Len(recorded)]]_vars

\* two refreshes overlapped: the last one to render shows data older than
\* the one before it, and its pass ran on the store as it stands
OverlappingRefreshesRendered ==
  /\ Len(recorded) >= 2
  /\ JGt(recorded[Len(recorded)].health[1], recorded[Len(recorded) - 1].health[1])
  /\ Detected
  /\ pass.snaps = snapshots

\* the step is a detection pass that follows another one on the same
\* campaigns, planets and snapshot history
SamePassAgain ==
  /\ Detected
  /\ pass'.at # -1
  /\ pass'.liberationCampaigns = pass.liberationCampaigns
  /\ pass'.defenseCampaigns = pass.defenseCampaigns
  /\ pass'.allPlanets = pass.allPlanets
  /\ pass'.snaps = pass.snaps

\* the pass left the store and the galaxy as they were
PassFrame == snapshots' = snapshots /\ recorded' = recorded /\ galaxy' = galaxy

\* C10 as stated: detectGambits and detectScoutTargets leave the store, the
\* campaigns and the planets unchanged, and two passes on the same inputs and
\* the same snapshot history return the same gambits, scores and order.
PassIsPure ==
  [][SamePassAgain =>
       /\ PassFrame
       /\ pass'.gambits = pass.gambits
       /\ pass'.scout = pass.scout]_vars

\* no liberation campaign of the last pass is one hop from a defense
\* campaign that has an end time
NoTimedDefenseInReach ==
  \A i \in 1..Len(pass.liberationCampaigns) :
    \A j \in 1..Len(pass.defenseCampaigns) :
      OneHop(pass.liberationCampaigns[i].planet, pass.defenseCampaigns[j].planet)
        => IsNullish(EndTimeOf(pass.defenseCampaigns[j].planet))

\* C10 amended: the passes leave the store, the campaigns and the planets
\* unchanged; two passes on the same inputs and the same snapshot history
\* return the same scout targets, and the same gambits, scores and order
\* when no campaign is connected to a defense that has an end time.
PassIsPureOffTheClock ==
  [][SamePassAgain =>
       /\ PassFrame
       /\ pass'.scout = pass.scout
       /\ NoTimedDefenseInReach => pass'.gambits = pass.gambits]_vars

\* a pass that ran after the clock had advanced, on a history of two
\* snapshots, for a campaign whose only connected defense has no end time
UntimedDefensePass ==
  /\ Detected
  /\ pass.at > 0
  /\ Len(pass.snaps) = 2
  /\ Len(Gambits) > 0
  /\ \E g \in 1..Len(Gambits) : HasDefense(Gambits[g])
  /\ NoTimedDefenseInReach

\* the call calc holds was one of fn and has returned
Called(fn) == calc.fn = fn /\ calc.done

\* the gambit a detectGambits call on one campaign returned
TheGambit == calc.out.list[1]

\* the planet of that campaign
TheSubject == calc.liberationCampaigns[1].planet

\* that call took the fallback branch of calcPlayerRequirements
OnFallback == Len(calc.snaps) < 2 \/ TheGambit.netRateObj.estimated

NoMultiplier(war) == ~war.def \/ IsNullish(war.impactMultiplier)

NonPositive(war) ==
  war.def /\ ~IsNullish(war.impactMultiplier) /\ JLe(war.impactMultiplier, Num(0))

\* the fallback estimate at impact multiplier imp
EstimateAt(planet, imp) ==
  LET min == MathCeil(JDiv(decayPctHr(planet), JMul(imp, Rat(1, 4))))
  IN  [def |-> TRUE, min |-> min, recommended |-> JMul(min, Num(3)), estimated |-> TRUE]

\* C11 as stated: when war.impactMultiplier is absent or non-positive, the
\* fallback player requirement of a gambit is the one computed with 0.005.
DefaultImpactAsClaimed ==
  Called("detectGambits") /\ OnFallback /\ (NoMultiplier(calc.war) \/ NonPositive(calc.war))
    => TheGambit.playerReqs = EstimateAt(TheSubject, Rat(5, 1000))

\* C11: when war (or war.impactMultiplier) is absent, the fallback player
\* requirement of a gambit is the one computed with 0.005; when
\* war.impactMultiplier is zero or negative, no requirement is computed.
DefaultImpactWhenAbsent ==
  Called("detectGambits") /\ OnFallback =>
    /\ NoMultiplier(calc.war) => TheGambit.playerReqs = EstimateAt(TheSubject, Rat(5, 1000))
    /\ NonPositive(calc.war) => ~TheGambit.playerReqs.def

NoRequirementAtZeroImpact ==
  /\ Called("detectGambits") /\ OnFallback
  /\ calc.war.def /\ calc.war.impactMultiplier = Num(0)
  /\ JGt(decayPctHr(TheSubject), Num(0))
  /\ ~TheGambit.playerReqs.def

\* the measured branch of calcPlayerRequirements was taken
OnMeasured == Len(calc.snaps) >= 2 /\ ~calc.netRateObj.estimated

\* the player count that branch works with: the latest snapshot's, and the
\* planet's own when the snapshot has none for it
CountInLatest ==
  LET latest == calc.snaps[Len(calc.snaps)]
  IN  IF calc.planet.index \in DOMAIN latest.players
        THEN latest.players[calc.planet.index]
        ELSE PlayersOf(calc.planet)

\* measured rate plus decay rate
GrossRate == JAdd(calc.netRateObj.value, decayPctHr(calc.planet))

\* C12: on the measured path calcPlayerRequirements returns null whenever the
\* player count of the latest snapshot is below 10, whenever measured rate
\* plus decay rate is <= 0 and whenever the rate per player is <= 0; it does
\* not return the impact-multiplier estimate then.
RequirementsUnavailable ==
  /\ Called("calcPlayerRequirements")
  /\ OnMeasured
  /\ \/ JLt(CountInLatest, Num(10))
     \/ JLe(GrossRate, Num(0))
     \/ JLe(JDiv(GrossRate, CountInLatest), Num(0))
  => ~calc.out.def

\* a snapshot with 5 players on a planet that has 1,000 by now, at a gain;
\* the fallback estimate would have been available
FewInSnapshotManyNow ==
  /\ Called("calcPlayerRequirements") /\ OnMeasured
  /\ CountInLatest = Num(5) /\ PlayersOf(calc.planet) = Num(1000)
  /\ JGt(GrossRate, Num(0))
  /\ EstimateAt(calc.planet, calc.impactMultiplier).def
  /\ ~calc.out.def

\* the score of the call calc holds, at another libPct and at another net rate
ScoreAtLibPct(libPct_) ==
  calcSuccessPct(libPct_, calc.netRate, calc.timeToComplete, calc.connectedDefenses,
                 calc.conditions, calc.at)

ScoreAtNetRate(netRate) ==
  calcSuccessPct(calc.libPct, netRate, calc.timeToComplete, calc.connectedDefenses,
                 calc.conditions, calc.at)

Positive(v) == ~IsNullish(v) /\ JGt(v, Num(0))

\* C13: calcSuccessPct is non-decreasing in libPct when the other arguments
\* are held fixed, and non-decreasing in netRate over netRate > 0 when the
\* other arguments are held fixed.
ScoreIsMonotone ==
  Called("calcSuccessPct") =>
    /\ \A libPct_ \in LibPcts :
         JLe(calc.libPct, libPct_) => JLe(calc.out, ScoreAtLibPct(libPct_))
    /\ \A netRate \in NetRates :
         Positive(calc.netRate) /\ Positive(netRate) /\ JLe(calc.netRate, netRate)
           => JLe(calc.out, ScoreAtNetRate(netRate))

\* a call whose score rises with more progress and also with a faster rate
ScoreRisesBothWays ==
  /\ Called("calcSuccessPct")
  /\ \E libPct_ \in LibPcts :
       JLt(calc.libPct, libPct_) /\ JLt(calc.out, ScoreAtLibPct(libPct_))
  /\ \E netRate \in NetRates :
       /\ Positive(calc.netRate) /\ Positive(netRate) /\ JLt(calc.netRate, netRate)
       /\ JLt(calc.out, ScoreAtNetRate(netRate))

\* the planet of the call has the worked example's regenPerSecond, maxHealth
\* and player count
IsExample(planet) ==
  /\ planet.regenPerSecond = Rat(1, 1000)
  /\ planet.maxHealth = Num(1000000)
  /\ planet.playerCount = Num(20000)

\* the player rate of an estimate: its net value plus the decay rate taken off
PlayerRateOf(planet, estimate) == JAdd(estimate.value, decayPctHr(planet))

\* C14 as stated: for regenPerSecond = 0.001, maxHealth = 1,000,000 and
\* playerCount = 20,000 estimatedNetRate yields decayRate 0.36 %/h, playerRate
\* 2.0 %/h and net value 1.64 %/h with estimated = true, whatever else the
\* planet holds.
EstimateAsClaimed ==
  Called("estimatedNetRate") /\ IsExample(calc.planet) =>
    /\ decayPctHr(calc.planet) = Rat(36, 100)
    /\ PlayerRateOf(calc.planet, calc.out) = Num(2)
    /\ calc.out = [value |-> Rat(164, 100), estimated |-> TRUE]

\* C14: for regenPerSecond = 0.001, maxHealth = 1,000,000 and playerCount =
\* 20,000 estimatedNetRate yields decayRate 0.00036 %/h, playerRate 2.0 %/h
\* and net value 1.99964 %/h with estimated = true, whatever else the planet
\* holds.
EstimateOfExample ==
  Called("estimatedNetRate") /\ IsExample(calc.planet) =>
    /\ decayPctHr(calc.planet) = Rat(36, 100000)
    /\ PlayerRateOf(calc.planet, calc.out) = Num(2)
    /\ calc.out = [value |-> Rat(199964, 100000), estimated |-> TRUE]

ExampleEstimated ==
  /\ Called("estimatedNetRate") /\ IsExample(calc.planet)
  /\ calc.planet.health = Num(600000)
  /\ calc.out.estimated

\* the scenario of C15 in a detectGambits call on one campaign: libPct 40, a
\* measured rate of +2.5 %/h, no connected defense, 1,000 players, the three
\* base conditions passing
InScenario ==
  /\ Called("detectGambits")
  /\ TheGambit.libPct = Num(40)
  /\ ~TheGambit.netRateObj.estimated /\ TheGambit.netRate = Rat(5, 2)
  /\ Len(TheGambit.connectedDefenses) = 0
  /\ TheGambit.players = Num(1000)
  /\ \A i \in 1..3 : TheGambit.conditions[i].pass

TierScores ==
  [OPTIMAL |-> 85..100, FAVORABLE |-> 70..84, VIABLE |-> 55..69, RISKY |-> 35..54,
   CRITICAL |-> 0..34]

\* the tiers that hold score v
TiersOf(v) == {tier \in DOMAIN TierScores : IsInteger(v) /\ v.n \in TierScores[tier]}

\* C16: the risk tier of every gambit is determined by its successPct alone:
\* >= 85 OPTIMAL, 70..84 FAVORABLE, 55..69 VIABLE, 35..54 RISKY, below 35
\* CRITICAL; every score of 0..100 is in exactly one tier.
RiskFollowsScore ==
  /\ Called("toRiskLevel") => TiersOf(calc.pct) = {calc.out}
  /\ Called("detectGambits") =>
       \A g \in 1..Len(calc.out.list) :
         /\ TiersOf(calc.out.list[g].successPct) = {calc.out.list[g].risk}
         /\ calc.out.list[g].risk = toRiskLevel(calc.out.list[g].successPct)

\* a gambit in the RISKY tier
RiskyGambit ==
  /\ Called("detectGambits")
  /\ TheGambit.risk = "RISKY"
  /\ JGe(TheGambit.successPct, Num(35)) /\ JLe(TheGambit.successPct, Num(54))

\* the last and the second-to-last snapshot of the store a call was given
LatestOf(snaps) == snaps[Len(snaps)]
PrevOf(snaps)   == snaps[Len(snaps) - 1]

\* the health a snapshot holds for planet idx, undefined when it holds none
HealthIn(entry, idx) == IF idx \in DOMAIN entry.health THEN entry.health[idx] ELSE Undef

\* ((previousHealth - latestHealth) / maxHealth) * 100 / elapsedHours over two snapshots
RateBetween(prev, latest, idx, maxHealth) ==
  JDiv(JMul(JDiv(JSub(HealthIn(prev, idx), HealthIn(latest, idx)), maxHealth), Num(100)),
       Rat(latest.ts - prev.ts, 1000))

\* C17: when measuredNetRate returns a value it is ((previousHealth -
\* latestHealth) / maxHealth) * 100 / elapsedHours of the last and the
\* second-to-last snapshot; it is positive (maxHealth being positive) iff
\* health decreased between those two; when those two are under 7.2 s
\* (2 ticks) apart no rate is measured, whatever the older snapshots hold.
MeasuredOverLastTwo ==
  Called("measuredNetRate") =>
    /\ ~IsNullish(calc.out) =>
         /\ Len(calc.snaps) >= 2
         /\ calc.out = RateBetween(PrevOf(calc.snaps), LatestOf(calc.snaps),
                                   calc.planetIndex, calc.maxHealth)
         /\ JGt(calc.out, Num(0))
              <=> JLt(HealthIn(LatestOf(calc.snaps), calc.planetIndex),
                      HealthIn(PrevOf(calc.snaps), calc.planetIndex))
    /\ Len(calc.snaps) >= 2 /\ LatestOf(calc.snaps).ts - PrevOf(calc.snaps).ts < 2
         => IsNullish(calc.out)

\* three snapshots: health fell between the first and the second, which are
\* far enough apart, and rose between the second and the third
FellThenRose ==
  /\ Called("measuredNetRate") /\ Len(calc.snaps) = 3
  /\ calc.snaps[2].ts - calc.snaps[1].ts >= 2
  /\ JLt(HealthIn(calc.snaps[2], 1), HealthIn(calc.snaps[1], 1))
  /\ JGt(HealthIn(calc.snaps[3], 1), HealthIn(calc.snaps[1], 1))
  /\ calc.snaps[3].ts - calc.snaps[2].ts >= 2
  /\ JLt(calc.out, Num(0))

\* the static formula: players / 10,000 %/h less the decay rate
StaticRate(planet) == JSub(JDiv(PlayersOf(planet), Num(10000)), decayPctHr(planet))

\* what measuredNetRate yields for a gambit's planet on the store of the pass
MeasuredFor(gambit) ==
  measuredNetRate(pass.snaps, CampaignOf(gambit).planet.index,
                  CampaignOf(gambit).planet.maxHealth)

\* C18: every gambit carries a net rate estimate: the measured rate with
\* estimated = false whenever measuredNetRate yields a value, and otherwise
\* the static-formula rate with estimated = true; every gambit of a pass made
\* with one snapshot stored (or none) has estimated = true.
RateIsMeasuredOrEstimated ==
  \A g \in 1..Len(Gambits) :
    /\ Gambits[g].netRateObj =
         IF ~IsNullish(MeasuredFor(Gambits[g]))
           THEN [value |-> MeasuredFor(Gambits[g]), estimated |-> FALSE]
           ELSE [value |-> StaticRate(CampaignOf(Gambits[g]).planet), estimated |-> TRUE]
    /\ Gambits[g].netRate = Gambits[g].netRateObj.value
    /\ Len(pass.snaps) <= 1 => Gambits[g].netRateObj.estimated

\* a pass on two snapshots with a measured gambit and an estimated one
MeasuredAndEstimated ==
  /\ Len(pass.snaps) = 2
  /\ \E g \in 1..Len(Gambits) : ~Gambits[g].netRateObj.estimated
  /\ \E g \in 1..Len(Gambits) : Gambits[g].netRateObj.estimated

\* position j is in the list of positions a gambit holds
Holds(positions, j) == \E r \in 1..Len(positions) : positions[r] = j

\* either planet's waypoints contain the other planet's index
EitherLists(p, q) ==
  \/ \E w \in 1..Len(Waypoints(p)) : Waypoints(p)[w] = q.index
  \/ \E w \in 1..Len(Waypoints(q)) : Waypoints(q)[w] = p.index

\* C19: a defense campaign is in a gambit's connectedDefenses iff the
\* liberation planet's waypoints contain the defense planet's index or the
\* defense planet's waypoints contain the liberation planet's index;
\* connectedLiberation is the other liberation campaigns that pass the same
\* test, and never contains the gambit's own campaign.
ConnectedEitherWay ==
  \A g \in 1..Len(Gambits) :
    /\ \A j \in 1..Len(pass.defenseCampaigns) :
         Holds(Gambits[g].connectedDefenses, j)
           <=> EitherLists(CampaignOf(Gambits[g]).planet, pass.defenseCampaigns[j].planet)
    /\ \A j \in 1..Len(pass.liberationCampaigns) :
         Holds(Gambits[g].connectedLiberation, j)
           <=> /\ j # Gambits[g].camp
               /\ EitherLists(CampaignOf(Gambits[g]).planet,
                              pass.liberationCampaigns[j].planet)

\* a gambit connected to a defense only the defense's waypoints name, next
\* to a gambit whose planet lists itself and another liberation planet
ConnectedFromTheOtherEnd ==
  /\ \E g \in 1..Len(Gambits) :
       /\ HasDefense(Gambits[g])
       /\ Waypoints(CampaignOf(Gambits[g]).planet) = << >>
       /\ Len(Gambits[g].connectedLiberation) = 1
  /\ \E g \in 1..Len(Gambits) :
       /\ Includes(Waypoints(CampaignOf(Gambits[g]).planet),
                   CampaignOf(Gambits[g]).planet.index)
       /\ Len(Gambits[g].connectedLiberation) = 1
       /\ ~Holds(Gambits[g].connectedLiberation, Gambits[g].camp)

\* the labels of a gambit's condition rows, in order
LabelsOf(gambit) == [r \in 1..Len(gambit.conditions) |-> gambit.conditions[r].label]

BaseLabels ==
  <<"Liberation progress >= 25%", "Net rate positive (liberating > decay)",
    "Liberation completable within 48h">>

\* C20: the condition list of a gambit starts with the three base conditions
\* in the order liberation progress, net rate positive, completable within
\* 48h; the "ETA beats defense expiry" row is present iff the gambit has a
\* connected defense, the "Players >= minimum" row iff a player requirement
\* was computed; the list has 3 to 5 rows.
ConditionsAsListed ==
  \A g \in 1..Len(Gambits) :
    /\ Len(Gambits[g].conditions) \in 3..5
    /\ SubSeq(LabelsOf(Gambits[g]), 1, 3) = BaseLabels
    /\ Includes(LabelsOf(Gambits[g]), "ETA beats defense expiry") <=> HasDefense(Gambits[g])
    /\ Includes(LabelsOf(Gambits[g]), "Players >= minimum") <=> Gambits[g].playerReqs.def
    /\ LabelsOf(Gambits[g]) =
         BaseLabels
           \o (IF HasDefense(Gambits[g]) THEN <<"ETA beats defense expiry">> ELSE << >>)
           \o (IF Gambits[g].playerReqs.def THEN <<"Players >= minimum">> ELSE << >>)

\* a pass with a gambit of four rows that ends with the defense row and a
\* gambit of four rows that ends with the players row
FourRowsBothWays ==
  /\ \E g \in 1..Len(Gambits) :
       /\ Len(Gambits[g].conditions) = 4
       /\ Gambits[g].conditions[4].label = "ETA beats defense expiry"
       /\ ~Gambits[g].playerReqs.def
  /\ \E g \in 1..Len(Gambits) :
       /\ Len(Gambits[g].conditions) = 4
       /\ Gambits[g].conditions[4].label = "Players >= minimum"
       /\ ~HasDefense(Gambits[g])

\* the hours a defense campaign has left at clock t: (endTime - t) / 1000,
\* and infinitely many without an end time
HoursRemaining(campaign, t) ==
  IF ~campaign.planet.event.def \/ IsNullish(campaign.planet.event.endTime)
    THEN PInf
    ELSE JDiv(JSub(campaign.planet.event.endTime, Num(t)), Num(1000))

\* eta is a finite ETA
FiniteEta(eta) == eta.k = "num"

\* eta is strictly under the hours left of every one of the defenses
BeatsAll(eta, defenses, t) ==
  \A j \in 1..Len(defenses) : JLt(eta, HoursRemaining(defenses[j], t))

\* C21: the "ETA beats defense expiry" condition passes iff a finite ETA
\* exists and is strictly less than the minimum hours-remaining over all
\* connected defenses, a defense without end time counting as infinitely far
\* away; an ETA equal to the minimum fails.
EtaRowPasses ==
  Called("buildConditions") /\ Len(calc.connectedDefenses) > 0 =>
    /\ calc.out[4].label = "ETA beats defense expiry"
    /\ calc.out[4].pass <=>
         /\ FiniteEta(calc.timeToComplete)
         /\ BeatsAll(calc.timeToComplete, calc.connectedDefenses, calc.at)

\* two connected defenses, the nearer one second; the ETA equals the hours
\* the nearer one has left and is under those of the other: the row fails
EtaEqualsNearest ==
  /\ Called("buildConditions") /\ Len(calc.connectedDefenses) = 2
  /\ FiniteEta(calc.timeToComplete)
  /\ calc.timeToComplete = HoursRemaining(calc.connectedDefenses[2], calc.at)
  /\ JLt(calc.timeToComplete, HoursRemaining(calc.connectedDefenses[1], calc.at))
  /\ ~calc.out[4].pass

\* the least of the hours the connected defenses of the call have left, less the ETA
BufferOf(eta, defenses, t) ==
  CHOOSE b \in {JSub(HoursRemaining(defenses[j], t), eta) : j \in 1..Len(defenses)} :
    \A j \in 1..Len(defenses) : JLe(b, JSub(HoursRemaining(defenses[j], t), eta))

\* the four components of the score of the call calc holds, as C22 lists them
ProgressPoints ==
  JMul(JDiv(IF JLt(calc.libPct, Num(100)) THEN calc.libPct ELSE Num(100), Num(100)), Num(25))

RatePoints ==
  IF IsNullish(calc.netRate) THEN Num(0)
  ELSE IF JGt(calc.netRate, Num(0))
    THEN (IF JLt(calc.netRate, Num(5)) THEN JMul(JDiv(calc.netRate, Num(5)), Num(30))
          ELSE Num(30))
    ELSE (IF JGt(calc.netRate, Num(-5)) THEN JMul(JDiv(calc.netRate, Num(5)), Num(10))
          ELSE Num(-10))

TimePoints ==
  IF ~FiniteEta(calc.timeToComplete) THEN Num(0)
  ELSE IF Len(calc.connectedDefenses) > 0 THEN
    LET buffer == BufferOf(calc.timeToComplete, calc.connectedDefenses, calc.at)
    IN  IF JLe(buffer, Num(0)) THEN Num(-15)
        ELSE IF JLt(buffer, Num(12)) THEN JMul(JDiv(buffer, Num(12)), Num(25))
        ELSE Num(25)
  ELSE IF JLt(calc.timeToComplete, Num(48))
    THEN JMul(JSub(Num(1), JDiv(calc.timeToComplete, Num(48))), Num(25))
    ELSE Num(0)

CheckPoints ==
  Rat(20 * Cardinality({r \in 1..Len(calc.conditions) : calc.conditions[r].pass}),
      Len(calc.conditions))

PointsSum == JAdd(JAdd(JAdd(ProgressPoints, RatePoints), TimePoints), CheckPoints)

\* n is the integer nearest to x (a half goes up), brought into 0..100
NearestClamped(x, n) ==
  \E r \in -200..200 :
    /\ JLe(Rat(2 * r - 1, 2), x) /\ JLt(x, Rat(2 * r + 1, 2))
    /\ n = Num(IF r < 0 THEN 0 ELSE IF r > 100 THEN 100 ELSE r)

IsCeiling(n, x) == IsInteger(n) /\ JLt(JSub(n, Num(1)), x) /\ JLe(x, n)

\* m is the greater of the integer lo and the ceiling of x
IsCeilingFrom(m, lo, x) ==
  \/ IsCeiling(m, x) /\ JGe(m, lo)
  \/ m = lo /\ JLe(x, lo)

\* the rate per player of the measured path, and the progress left to make
RatePerPlayer == JDiv(GrossRate, CountInLatest)

RemainingPct == JSub(Num(100), libPct(calc.planet))

\* C23: a requirement returned on the measured path has min = max(1,
\* ceil(decayRate / ratePerPlayer)) >= 1 and recommended = max(2 x min,
\* ceil((decayRate + remainingPct/24) / ratePerPlayer)) >= 2 x min, and no
\* estimated flag; on the fallback path min = ceil(decayRate / (impact x
\* 0.25)), recommended = 3 x min and estimated = true, and nothing is
\* returned when impact <= 0.
RequirementsAsComputed ==
  Called("calcPlayerRequirements") =>
    /\ calc.out.def /\ OnMeasured =>
         /\ IsCeilingFrom(calc.out.min, Num(1),
                          JDiv(decayPctHr(calc.planet), RatePerPlayer))
         /\ JGe(calc.out.min, Num(1))
         /\ IsCeilingFrom(calc.out.recommended, JMul(Num(2), calc.out.min),
                          JDiv(JAdd(decayPctHr(calc.planet),
                                    JDiv(RemainingPct, Num(24))), RatePerPlayer))
         /\ JGe(calc.out.recommended, JMul(Num(2), calc.out.min))
         /\ ~calc.out.estimated
    /\ calc.out.def /\ ~OnMeasured =>
         /\ IsCeiling(calc.out.min,
                      JDiv(decayPctHr(calc.planet), JMul(calc.impactMultiplier, Rat(1, 4))))
         /\ calc.out.recommended = JMul(Num(3), calc.out.min)
         /\ calc.out.estimated
    /\ ~OnMeasured /\ JLe(calc.impactMultiplier, Num(0)) => ~calc.out.def

\* a measured requirement: 1,000 players gain 2.5 %/h against 1 %/h of decay,
\* so 286 break even and 1,000 are recommended
MeasuredRequirement ==
  /\ Called("calcPlayerRequirements") /\ OnMeasured /\ calc.out.def
  /\ CountInLatest = Num(1000) /\ calc.netRateObj.value = Rat(5, 2)
  /\ decayPctHr(calc.planet) = Num(1)
  /\ calc.out.min = Num(286) /\ calc.out.recommended = Num(1000)

\* the planet indices under campaign in a detectScoutTargets call
CampaignIndices ==
  {calc.liberationCampaigns[i].planet.index : i \in 1..Len(calc.liberationCampaigns)}
    \cup {calc.defenseCampaigns[i].planet.index : i \in 1..Len(calc.defenseCampaigns)}

\* the positions in allPlanets of the planets that qualify for defense
\* campaign j: one hop away, under no campaign, owned and not by humans
Qualifying(j) ==
  {i \in 1..Len(calc.allPlanets) :
     /\ OneHop(calc.allPlanets[i], calc.defenseCampaigns[j].planet)
     /\ calc.allPlanets[i].index \notin CampaignIndices
     /\ ~Unowned(calc.allPlanets[i])
     /\ ~HumanOwned(calc.allPlanets[i])}

\* the targets reported for defense campaign j, over all entries
Reported(j) ==
  {<<r, k>> \in (1..Len(calc.out.list)) \X (1..Len(calc.allPlanets)) :
     /\ calc.out.list[r].defenseCampaign = j
     /\ k <= Len(calc.out.list[r].targets)}

\* C24: for every defense campaign, the targets detectScoutTargets reports are
\* exactly the planets of allPlanets one supply-line hop from the defended
\* planet in either direction, under no active campaign and with a non-empty
\* non-friendly owner; each is reported, and once.
TargetsAreTheOpenNeighbours ==
  Called("detectScoutTargets") =>
    \A j \in 1..Len(calc.defenseCampaigns) :
      /\ \A rk \in Reported(j) :
           \E i \in Qualifying(j) :
             calc.out.list[rk[1]].targets[rk[2]].planet = calc.allPlanets[i]
      /\ \A i \in Qualifying(j) :
           Cardinality({rk \in Reported(j) :
             calc.out.list[rk[1]].targets[rk[2]].planet = calc.allPlanets[i]}) = 1

\* a defense with targets in both directions: planet 9 that it lists and
\* planet 4 that lists it, and planet 10 linked both ways
NeighboursBothWays ==
  /\ Called("detectScoutTargets")
  /\ \E j \in 1..Len(calc.defenseCampaigns) :
       /\ Waypoints(calc.defenseCampaigns[j].planet) = <<9, 10, 12>>
       /\ {calc.allPlanets[i].index : i \in Qualifying(j)} = {4, 9, 10}
       /\ Cardinality(Reported(j)) = 3

\* the expiry of the defense campaign of an entry, if it has one
Timed(entry) == ~IsNullish(EndTimeOf(calc.defenseCampaigns[entry.defenseCampaign].planet))

EndOf(entry) == EndTimeOf(calc.defenseCampaigns[entry.defenseCampaign].planet)

\* entry a may stand before entry b: no untimed entry before a timed one, and
\* timed entries by ascending end time
ExpiryInOrder(a, b) ==
  /\ Timed(b) => Timed(a)
  /\ Timed(a) /\ Timed(b) => JLe(EndOf(a), EndOf(b))

\* target a may stand before target b: by ascending decay rate, a target
\* without a decay rate after those that have one
DecayInOrder(a, b) ==
  /\ ~IsNullish(b.decayPctHr) => ~IsNullish(a.decayPctHr)
  /\ ~IsNullish(a.decayPctHr) /\ ~IsNullish(b.decayPctHr) => JLe(a.decayPctHr, b.decayPctHr)

\* C25: detectScoutTargets returns one entry for each defense campaign that
\* has a qualifying target and none for the others; the entries are in
\* ascending order of defense expiry, campaigns without expiry last, and the
\* targets of each entry in ascending order of decay rate.
EntriesInOrder ==
  Called("detectScoutTargets") =>
    /\ \A j \in 1..Len(calc.defenseCampaigns) :
         Cardinality({r \in 1..Len(calc.out.list) : calc.out.list[r].defenseCampaign = j})
           = IF Qualifying(j) # {} THEN 1 ELSE 0
    /\ \A r \in 1..Len(calc.out.list) :
         /\ calc.out.list[r].defenseCampaign \in 1..Len(calc.defenseCampaigns)
         /\ Len(calc.out.list[r].targets) > 0
         /\ r > 1 => ExpiryInOrder(calc.out.list[r - 1], calc.out.list[r])
         /\ \A k \in 2..Len(calc.out.list[r].targets) :
              DecayInOrder(calc.out.list[r].targets[k - 1], calc.out.list[r].targets[k])

\* the second campaign passed in expires first and is reported first, and an
\* entry puts planet 4 before planet 9, which was connected first
EntriesReordered ==
  /\ Called("detectScoutTargets")
  /\ Len(calc.out.list) = 2
  /\ calc.out.list[1].defenseCampaign = 2 /\ calc.out.list[2].defenseCampaign = 1
  /\ JLt(EndOf(calc.out.list[1]), EndOf(calc.out.list[2]))
  /\ \E r \in 1..2 :
       /\ Len(calc.out.list[r].targets) = 3
       /\ calc.out.list[r].targets[1].planet.index = 4
       /\ calc.out.list[r].targets[2].planet.index = 9
       /\ calc.out.list[r].targets[3].decayPctHr = Null

\* planet 1 loses health as the clock advances: of two snapshots the one with
\* more health for it holds the data that was requested earlier
RequestedEarlier(a, b) == JGt(a.health[1], b.health[1])

\* C26: when refreshes overlap, snapshots are appended in the order the
\* refreshes were started: no snapshot holds data requested earlier than the
\* data of the snapshot before it.
SnapshotsInRequestOrder ==
  \A k \in 2..Len(recorded) : ~RequestedEarlier(recorded[k], recorded[k - 1])

\* C27: a refresh in which one of the requests fails renders nothing: it
\* records no snapshot, runs no detection pass and leaves the stored
\* campaigns and planet list as they were.
FailedRefreshChangesNothing ==
  [][FetchFail => UNCHANGED <<snapshots, recorded, state, pass>>]_vars

\* every campaign of the galaxy carries its planet record, so that each
\* refresh that renders records a snapshot
RendersRecord == \A c \in 1..Len(galaxy.campaigns) : galaxy.campaigns[c] # 0

\* a refresh has failed: more refreshes have ended than have rendered, and
\* the state is the one the last render left, with another refresh in flight
RefreshFailed ==
  /\ RendersRecord
  /\ Len(recorded) >= 1
  /\ started - Len(fetches) > Len(recorded)
  /\ Len(fetches) > 0
  /\ SnapshotEntry(state.allPlanets, recorded[Len(recorded)].ts) = recorded[Len(recorded)]
  /\ snapshots[Len(snapshots)] = recorded[Len(recorded)]

\* the score of gambit g when its time-viability component is time
ScoreWithTime(g, time) ==
  LET progress == JMul(JDiv(MathMin(g.libPct, Num(100)), Num(100)), Num(25))
      rate     == IF JGt(g.netRate, Num(0))
                    THEN JMul(MathMin(JDiv(g.netRate, Num(5)), Num(1)), Num(30))
                    ELSE JMul(MathMax(JDiv(g.netRate, Num(5)), Num(-1)), Num(10))
      checks   == JMul(Rat(Cardinality({i \in 1..Len(g.conditions) : g.conditions[i].pass}),
                           Len(g.conditions)), Num(20))
  IN  MathMax(Num(0), MathMin(Num(100),
        MathRound(JAdd(JAdd(JAdd(progress, rate), time), checks))))

\* the "ETA beats defense expiry" row of a gambit with a connected defense
EtaRow(g) == g.conditions[4]

\* C28: for a gambit with a connected defense and a finite ETA, the "ETA
\* beats defense expiry" row passes iff the time-viability component of the
\* score is the reward and not the penalty of 15: buildConditions and
\* calcSuccessPct never disagree within one detection pass.
EtaRowAgreesWithScore ==
  Called("detectGambits") =>
    \A r \in 1..Len(calc.out.list) :
      LET g == calc.out.list[r]
      IN  Len(g.connectedDefenses) > 0 /\ FiniteEta(g.timeToComplete) =>
            (EtaRow(g).pass <=> g.successPct # ScoreWithTime(g, Num(-15)))

\* the gambit's requirement was computed on the measured path
FromMeasured(g) == g.playerReqs.def /\ ~g.playerReqs.estimated

\* the planet's reported player count is the one its latest snapshot holds
CountAsRecorded(planet) ==
  /\ Len(calc.snaps) > 0
  /\ planet.index \in DOMAIN calc.snaps[Len(calc.snaps)].players
  /\ calc.snaps[Len(calc.snaps)].players[planet.index] = planet.playerCount

\* the "Players >= minimum" row, the last of the checklist when there is a
\* requirement
PlayersRow(g) == g.conditions[Len(g.conditions)]

\* C29: in detectGambits, when the requirement comes from the measured path,
\* the decay rate is >= 0 and the planet's player count is the one of the
\* latest snapshot, a net rate > 0 implies players >= min (the "Players >=
\* minimum" row passes) and a net rate < 0 implies players < min (it fails).
BreakevenMatchesRate ==
  Called("detectGambits") =>
    \A r \in 1..Len(calc.out.list) :
      LET g      == calc.out.list[r]
          planet == calc.liberationCampaigns[g.camp].planet
      IN  /\ FromMeasured(g)
          /\ JGe(decayPctHr(planet), Num(0))
          /\ CountAsRecorded(planet)
          => /\ PlayersRow(g).label = "Players >= minimum"
             /\ JGt(g.netRate, Num(0)) =>
                  JGe(g.players, g.playerReqs.min) /\ PlayersRow(g).pass
             /\ JLt(g.netRate, Num(0)) =>
                  JLt(g.players, g.playerReqs.min) /\ ~PlayersRow(g).pass

\* 1,000 players lose 0.5 %/h against 1 %/h of decay: the breakeven minimum
\* is 2,000 and the players row fails
LosingBelowBreakeven ==
  /\ Called("detectGambits") /\ Len(calc.out.list) = 1
  /\ FromMeasured(TheGambit) /\ CountAsRecorded(TheSubject)
  /\ decayPctHr(TheSubject) = Num(1)
  /\ TheGambit.netRate = Rat(-1, 2)
  /\ TheGambit.players = Num(1000) /\ TheGambit.playerReqs.min = Num(2000)
  /\ ~PlayersRow(TheGambit).pass

\* C30: in every gambit produced by detectGambits timeToComplete is defined
\* exactly when netRate > 0 and is then >= 0, so that the "completable within
\* 48h" row and the "ETA beats defense expiry" row pass only if the "net rate
\* positive" row passes.
EtaDefinedWhenProgressing ==
  \A g \in 1..Len(Gambits) :
    /\ Gambits[g].timeToComplete # Null <=> JGt(Gambits[g].netRate, Num(0))
    /\ Gambits[g].timeToComplete # Null => JGe(Gambits[g].timeToComplete, Num(0))
    /\ Gambits[g].conditions[3].pass => Gambits[g].conditions[2].pass
    /\ HasDefense(Gambits[g]) /\ Gambits[g].conditions[4].pass
         => Gambits[g].conditions[2].pass
====
